---- MODULE Spec2Model ----
(***************************************************************************)
(* A model of fig-mcp: the tree builder of the .fig document               *)
(* (src/parser/kiwi-parser.ts, src/parser/index.ts), the instance          *)
(* resolver (src/parser/instance-resolver.ts) and the scene renderer       *)
(* (src/renderer/render-screen.ts).                                        *)
(*                                                                         *)
(* The specifications of the module:                                       *)
(*   SpecTree    buildTreeFromNodeChanges and the two id indices           *)
(*   SpecClone   cloneWithOverrides as a stack machine (termination)       *)
(*   Spec        resolveInstanceChildren and renderScreen called on a      *)
(*               parsed graph                                              *)
(*   SpecPath    decodePathCommands and decodePathCommandsFromArray        *)
(*   SpecVector  renderStrokedVector on a vector network                   *)
(*   SpecArchive parseFigArchive and listFigContents on a ZIP file         *)
(*   SpecRect    renderRectangle and renderInstanceContent                 *)
(*   SpecOptions the render_screen handler and the option merge            *)
(***************************************************************************)
EXTENDS Integers, Sequences, FiniteSets, TLC

VARIABLES
    \* ---- the parsed graph, the resolver and the renderer
    symbolID,       \* INSTANCE node -> symbolData.symbolID (the only mutable field)
    rawOverrides,   \* rawNodeIndex.get("7").symbolData.symbolOverrides
    rawAssignments, \* rawNodeIndex.get("7").componentPropAssignments
    last,           \* the last call made on the graph and what it returned
    \* ---- cloneWithOverrides run step by step (instance-resolver.ts)
    cloneOf,        \* the instance being resolved, 0 before the call
    overrideMap,    \* overrideByNodeId of the call
    cloneStack,     \* the active cloneWithOverrides calls: [kids, idx, expanded]
    cloneSymbols,   \* symbolStack: the symbols being expanded
    cloneCount,     \* clones made so far
    cloneCuts,      \* expansions refused because the symbol is on symbolStack
    clonePc,        \* "idle" | "cloning" | "done"
    \* ---- tree builder (kiwi-parser.ts, index.ts)
    nodeChanges,    \* the flat sequence of node-change records read so far
    nodeMap,        \* Map guid -> node object (a node object is a record index)
    childrenMap,    \* Map parent guid -> list of node objects
    documentNode,   \* the node object of the last DOCUMENT record, 0 when none
    children,       \* node object -> its children list
    byId,           \* buildNodeIdIndex: guid -> node object (0 when absent)
    byIdToPath,     \* buildNodePathIndex: guid -> path (<<>> when absent)
    warnings,       \* warnings recorded by the parser
    treePc,         \* "first" | "built" | "failed" | "indexed"
    \* ---- one call of a function that takes no graph (decoders, readers)
    call,           \* the function called and its arguments
    result,         \* what the call produced, [fn |-> "none"] before it returns
    \* ---- the MCP server's parse cache (src/mcp/server.ts)
    fileCache,      \* fileCache: path -> the parse stored for it, NoParse if none
    requests,       \* the tool calls and image requests: where each one stands
    clears,         \* path -> how many clear_cache calls have removed it so far
    \* ---- the HTTP image server (src/http-server.ts, src/shared-config.ts)
    httpPort,       \* config.httpPort
    httpServer,     \* the listen attempts: [pc, port, attempt, listening]
    processExited,  \* process.exit has been called
    urls,           \* the image urls sent in tool responses so far
    \* ---- the web viewer (createServer in src/mcp/server.ts)
    currentFile,    \* currentFile of the viewer, "" for undefined
    viewerCache,    \* the paths in the viewer's fileCache
    viewerRequests  \* the POST /api/open in flight and the responses sent

treeVars == <<nodeChanges, nodeMap, childrenMap, documentNode, children,
              byId, byIdToPath, warnings, treePc>>

graphVars == <<symbolID, rawOverrides, rawAssignments, last>>

cloneVars == <<cloneOf, overrideMap, cloneStack, cloneSymbols, cloneCount,
               cloneCuts, clonePc>>

callVars == <<call, result>>

serverVars == <<fileCache, requests, clears, httpPort, httpServer,
                processExited, urls, currentFile, viewerCache, viewerRequests>>

vars == <<graphVars, treeVars, cloneVars, callVars, serverVars>>

\* no server is running
ServerIdle ==
    /\ fileCache = <<>>
    /\ requests = <<>>
    /\ clears = <<>>
    /\ httpPort = 0
    /\ httpServer = [pc |-> "none"]
    /\ processExited = FALSE
    /\ urls = {}
    /\ currentFile = ""
    /\ viewerCache = {}
    /\ viewerRequests = [pc |-> "none"]

----------------------------------------------------------------------------
(* Bounds of the tree builder's inputs *)

MaxRecs == 3

Ids == 1..3

NoParent == 0

NodeTypes == {"DOCUMENT", "CANVAS", "FRAME"}

\* position tokens: opaque strings, modelled as sequences of character codes
Positions == {<<1>>, <<1, 2>>, <<2>>}

\* a node-change record. A DOCUMENT record carries no parentIndex (the root of
\* a .fig file has none); every other record may or may not carry one.
NodeChangeRecords ==
    {r \in [guid : Ids, type : NodeTypes, parent : Ids \cup {NoParent},
            position : Positions] :
        /\ r.type = "DOCUMENT" => r.parent = NoParent
        /\ r.parent = NoParent => r.position = <<1>>}

\* lexicographic order of two position tokens
LexLess(a, b) ==
    \E i \in 1..(Len(b)) :
        /\ \A k \in 1..(i - 1) : k <= Len(a) /\ a[k] = b[k]
        /\ i - 1 <= Len(a)
        /\ (i > Len(a) \/ a[i] < b[i])

----------------------------------------------------------------------------
(* buildTreeFromNodeChanges, first pass: one iteration of the loop *)

\* nodeMap.set(guidKey, node); the DOCUMENT check; the childrenMap push
ConvertRecord(rec) ==
    /\ treePc = "first"
    /\ Len(nodeChanges) < MaxRecs
    /\ LET obj == Len(nodeChanges) + 1 IN
        /\ nodeChanges' = Append(nodeChanges, rec)
        /\ nodeMap' = [nodeMap EXCEPT ![rec.guid] = obj]
        /\ documentNode' = IF rec.type = "DOCUMENT" THEN obj ELSE documentNode
        /\ childrenMap' =
             IF rec.parent # NoParent
             THEN [childrenMap EXCEPT ![rec.parent] = Append(@, obj)]
             ELSE childrenMap
    /\ UNCHANGED <<children, byId, byIdToPath, warnings, treePc>>
    /\ UNCHANGED <<graphVars, cloneVars, callVars, serverVars>>

\* the children list every node object gets from the second pass
ConnectedChildren ==
    [obj \in 1..Len(nodeChanges) |->
        IF nodeMap[nodeChanges[obj].guid] = obj
        THEN childrenMap[nodeChanges[obj].guid]
        ELSE <<>>]

\* second pass and return; parseFigFile throws when there is no document
ConnectChildren ==
    /\ treePc = "first"
    /\ Len(nodeChanges) >= 1
    /\ children' = ConnectedChildren
    /\ treePc' = IF documentNode = 0 THEN "failed" ELSE "built"
    /\ UNCHANGED <<nodeChanges, nodeMap, childrenMap, documentNode,
                   byId, byIdToPath, warnings>>
    /\ UNCHANGED <<graphVars, cloneVars, callVars, serverVars>>

----------------------------------------------------------------------------
(* buildNodeIdIndex and buildNodePathIndex: a pre-order walk; a later      *)
(* index.set of the same key replaces the earlier one                      *)

guidOf(obj) == nodeChanges[obj].guid

RECURSIVE WalkKids(_, _, _)
\* the pre-order list of <<node object, nodePath>> under `kids` from index i
WalkKids(kids, i, path) ==
    IF i > Len(kids) THEN <<>>
    ELSE LET n == kids[i]
             nodePath == path \o <<guidOf(n)>>
         IN  <<[node |-> n, path |-> nodePath]>>
                \o WalkKids(children[n], 1, nodePath)
                \o WalkKids(kids, i + 1, path)

Walk(root) == WalkKids(<<root>>, 1, <<>>)

RECURSIVE SetAll(_, _, _, _)
\* index.set for every visit, in visiting order
SetAll(index, visits, i, field) ==
    IF i > Len(visits) THEN index
    ELSE SetAll([index EXCEPT ![guidOf(visits[i].node)] = visits[i][field]],
                visits, i + 1, field)

buildNodeIdIndex(document) ==
    SetAll([g \in Ids |-> 0], Walk(document), 1, "node")

buildNodePathIndex(document) ==
    SetAll([g \in Ids |-> <<>>], Walk(document), 1, "path")

BuildIndices ==
    /\ treePc = "built"
    /\ byId' = buildNodeIdIndex(documentNode)
    /\ byIdToPath' = buildNodePathIndex(documentNode)
    /\ treePc' = "indexed"
    /\ UNCHANGED <<nodeChanges, nodeMap, childrenMap, documentNode, children,
                   warnings>>
    /\ UNCHANGED <<graphVars, cloneVars, callVars, serverVars>>

\* no graph is exposed while the tree is being built
CallIdle ==
    /\ call = [fn |-> "none"]
    /\ result = [fn |-> "none"]

CloneIdle ==
    /\ CallIdle
    /\ cloneOf = 0
    /\ overrideMap = <<>>
    /\ cloneStack = <<>>
    /\ cloneSymbols = {}
    /\ cloneCount = 0
    /\ cloneCuts = 0
    /\ clonePc = "idle"

GraphIdle ==
    /\ CloneIdle
    /\ symbolID = <<>>
    /\ rawOverrides = <<>>
    /\ rawAssignments = <<>>
    /\ last = [op |-> "none"]

TreeInit ==
    /\ GraphIdle
    /\ ServerIdle
    /\ nodeChanges = <<>>
    /\ nodeMap = [g \in Ids |-> 0]
    /\ childrenMap = [g \in Ids |-> <<>>]
    /\ documentNode = 0
    /\ children = <<>>
    /\ byId = [g \in Ids |-> 0]
    /\ byIdToPath = [g \in Ids |-> <<>>]
    /\ warnings = {}
    /\ treePc = "first"

TreeNext ==
    \/ \E rec \in NodeChangeRecords : ConvertRecord(rec)
    \/ ConnectChildren
    \/ BuildIndices

SpecTree == TreeInit /\ [][TreeNext]_vars

----------------------------------------------------------------------------
(* Claims about the tree builder *)

\* the node objects of the built tree: those the walk from the root visits
TreeNodes == {Walk(documentNode)[i].node : i \in 1..Len(Walk(documentNode))}

Parsed == treePc \in {"built", "indexed"}

positionOf(obj) == nodeChanges[obj].position

ParentsOf(obj) ==
    {m \in TreeNodes : \E i \in 1..Len(children[m]) : children[m][i] = obj}

RECURSIVE AncestorChain(_)
\* the guids from the root down to obj, following parent links
AncestorChain(obj) ==
    IF obj = documentNode \/ ParentsOf(obj) = {} THEN <<guidOf(obj)>>
    ELSE AncestorChain(CHOOSE m \in ParentsOf(obj) : TRUE) \o <<guidOf(obj)>>

\* C1: after the tree is built, the children of every parent are ordered by
\* their position token (lexicographic order), whatever the order of the
\* records in the flat sequence.
C1_ChildrenOrderedByPosition ==
    Parsed =>
        \A obj \in TreeNodes :
            \A i, j \in 1..Len(children[obj]) :
                i < j => ~LexLess(positionOf(children[obj][j]),
                                  positionOf(children[obj][i]))

\* C2: in the built tree every node other than the root DOCUMENT has exactly
\* one parent, and each Id appears at most once as a tree node.
C2_OneParentAndUniqueIds ==
    Parsed =>
        /\ \A obj \in TreeNodes \ {documentNode} :
              /\ Cardinality(ParentsOf(obj)) = 1
              /\ \A m \in ParentsOf(obj) :
                    Cardinality({i \in 1..Len(children[m]) :
                                    children[m][i] = obj}) = 1
        /\ \A a, b \in TreeNodes : guidOf(a) = guidOf(b) => a = b

\* C3: for every node n of the built tree the id index maps n's id to n
\* itself, and the path index maps n's id to the root-to-n chain of ids,
\* whose last element is n's id.
C3_IndicesMapEveryNode ==
    treePc = "indexed" =>
        \A obj \in TreeNodes :
            /\ byId[guidOf(obj)] = obj
            /\ byIdToPath[guidOf(obj)] = AncestorChain(obj)
            /\ byIdToPath[guidOf(obj)][Len(byIdToPath[guidOf(obj)])] = guidOf(obj)

IsOrphan(obj) ==
    nodeChanges[obj].parent = NoParent /\ nodeChanges[obj].type # "DOCUMENT"

\* C4: every record with no parent and a type other than DOCUMENT is an
\* orphan: it is not in the built tree and a warning is recorded for it.
C4_OrphansDroppedWithWarning ==
    Parsed =>
        \A obj \in 1..Len(nodeChanges) :
            IsOrphan(obj) => obj \notin TreeNodes /\ obj \in warnings

\* the half of C4 the code does satisfy: an orphan is never a tree node
OrphansNotInTree ==
    Parsed => \A obj \in 1..Len(nodeChanges) : IsOrphan(obj) => obj \notin TreeNodes

\* every node object of the tree has one parent (node objects, not Ids)
TreeObjectsHaveOneParent ==
    Parsed => \A obj \in TreeNodes \ {documentNode} : Cardinality(ParentsOf(obj)) = 1

----------------------------------------------------------------------------
(* The parsed graph the resolver and the renderer work on.                 *)
(*                                                                         *)
(*   1 DOCUMENT                                                            *)
(*   +- 2 CANVAS                                                           *)
(*      +- 3 COMPONENT (symbol A)   +- 5 RECTANGLE   +- 6 INSTANCE -> 4    *)
(*      +- 4 COMPONENT (symbol B)   +- 9 TEXT "old"  +- 10 INSTANCE -> 3   *)
(*      |                           +- 14 INSTANCE -> 3, with a child 15   *)
(*      +- 7 INSTANCE -> 3  (its overrides are chosen in Init)             *)
(*      +- 8 INSTANCE -> 3  (one text override, smaller than the symbol)   *)
(*      +- 11 FRAME, clipsContent   +- 12 RECTANGLE, isMask                *)
(*      |                           +- 13 RECTANGLE, drop shadow           *)
(*      +- 16 FRAME                 +- 17 RECTANGLE                        *)
(*      |                           +- 18 RECTANGLE, isMask                *)
(*      |                           +- 19 RECTANGLE, three shadows         *)
(*      |                           +- 20 RECTANGLE, isMask, invisible     *)
(*      |                           +- 21 RECTANGLE                        *)
(*      |                           +- 22 FRAME, invisible, clipsContent,  *)
(*      |                           |     drop shadow   +- 23 RECTANGLE    *)
(*      |                           +- 24 FRAME  +- 25 RECTANGLE, isMask   *)
(*      |                                        +- 26 RECTANGLE           *)
(*      +- 27 FRAME, clipsContent, without a size                          *)
(*                                  +- 28 RECTANGLE                        *)
(*                                  +- 29 RECTANGLE, isMask                *)
(*                                  +- 30 RECTANGLE                        *)
(*                                                                         *)
(* The INSTANCE -> SYMBOL references 3 -> 6 -> 4 -> 10 -> 3 form a cycle.  *)
(* A node value is a record; `symRef` names the symbolData object a node   *)
(* (and every shallow clone of it) points at, and symbolID[symRef] is that *)
(* object's symbolID field.                                                *)

GNodes == 1..30

NoNode == 0

TypeOf ==
    [n \in GNodes |->
        CASE n = 1 -> "DOCUMENT"
          [] n = 2 -> "CANVAS"
          [] n \in {3, 4} -> "COMPONENT"
          [] n \in {5, 12, 13, 17, 18, 19, 20, 21, 23, 25, 26, 28, 29, 30} -> "RECTANGLE"
          [] n \in {6, 7, 8, 10, 14} -> "INSTANCE"
          [] n = 9 -> "TEXT"
          [] n \in {11, 16, 22, 24, 27} -> "FRAME"
          [] n = 15 -> "GROUP"]

KidsOf ==
    [n \in GNodes |->
        CASE n = 1 -> <<2>>
          [] n = 2 -> <<3, 4, 7, 8, 11, 16, 27>>
          [] n = 3 -> <<5, 6>>
          [] n = 4 -> <<9, 10, 14>>
          [] n = 11 -> <<12, 13>>
          [] n = 14 -> <<15>>
          [] n = 16 -> <<17, 18, 19, 20, 21, 22, 24>>
          [] n = 22 -> <<23>>
          [] n = 24 -> <<25, 26>>
          [] n = 27 -> <<28, 29, 30>>
          [] OTHER -> <<>>]

InstanceNodes == {n \in GNodes : TypeOf[n] = "INSTANCE"}

\* symbolData.symbolID of every INSTANCE as parsed
InitialSymbolID ==
    [n \in InstanceNodes |-> IF n = 6 THEN 4 ELSE 3]

\* rawNodeIndex.get(id).overrideKey; NoNode when the raw node has none
OverrideKey ==
    [n \in GNodes |-> IF n \in {5, 6, 9, 10, 14, 15} THEN n ELSE NoNode]

\* rawNodeIndex.get(id).componentPropRefs
ComponentPropRefs ==
    [n \in GNodes |->
        CASE n = 5 -> <<[defID |-> 1, componentPropNodeField |-> "VISIBLE"]>>
          [] n = 6 -> <<[defID |-> 2, componentPropNodeField |-> "OVERRIDDEN_SYMBOL_ID"]>>
          [] n = 9 -> <<[defID |-> 3, componentPropNodeField |-> "TEXT_DATA"]>>
          [] n = 14 -> <<[defID |-> 2, componentPropNodeField |-> "OVERRIDDEN_SYMBOL_ID"]>>
          [] OTHER -> <<>>]

CharactersOf == [n \in GNodes |-> IF n = 9 THEN "old" ELSE ""]

\* x, y, width, height of every node; DOCUMENT and CANVAS carry no size
NoSize == 0

Geometry ==
    [n \in GNodes |->
        CASE n = 3 -> [x |-> 100, y |-> 0, width |-> 20, height |-> 20]
          [] n = 4 -> [x |-> 200, y |-> 0, width |-> 30, height |-> 30]
          [] n = 5 -> [x |-> 0, y |-> 0, width |-> 20, height |-> 10]
          [] n = 6 -> [x |-> 0, y |-> 10, width |-> 20, height |-> 10]
          [] n = 7 -> [x |-> 0, y |-> 0, width |-> 20, height |-> 20]
          [] n = 8 -> [x |-> 0, y |-> 50, width |-> 10, height |-> 10]
          [] n = 9 -> [x |-> 0, y |-> 0, width |-> 30, height |-> 10]
          [] n = 10 -> [x |-> 0, y |-> 10, width |-> 20, height |-> 20]
          [] n = 11 -> [x |-> 300, y |-> 0, width |-> 40, height |-> 40]
          [] n = 12 -> [x |-> 0, y |-> 0, width |-> 40, height |-> 20]
          [] n = 13 -> [x |-> 10, y |-> 10, width |-> 20, height |-> 20]
          [] n = 14 -> [x |-> 0, y |-> 20, width |-> 10, height |-> 10]
          [] n = 15 -> [x |-> 0, y |-> 0, width |-> 10, height |-> 10]
          [] n = 16 -> [x |-> 400, y |-> 0, width |-> 60, height |-> 60]
          [] n = 17 -> [x |-> 0, y |-> 0, width |-> 10, height |-> 10]
          [] n = 18 -> [x |-> 0, y |-> 0, width |-> 60, height |-> 30]
          [] n = 19 -> [x |-> 10, y |-> 0, width |-> 10, height |-> 10]
          [] n = 20 -> [x |-> 0, y |-> 30, width |-> 60, height |-> 30]
          [] n = 21 -> [x |-> 20, y |-> 30, width |-> 10, height |-> 10]
          [] n = 22 -> [x |-> 30, y |-> 30, width |-> 10, height |-> 10]
          [] n = 23 -> [x |-> 0, y |-> 0, width |-> 10, height |-> 10]
          [] n = 24 -> [x |-> 40, y |-> 30, width |-> 20, height |-> 20]
          [] n = 25 -> [x |-> 0, y |-> 0, width |-> 20, height |-> 10]
          [] n = 26 -> [x |-> 0, y |-> 0, width |-> 10, height |-> 10]
          [] n = 27 -> [x |-> 500, y |-> 0, width |-> NoSize, height |-> NoSize]
          [] n = 28 -> [x |-> 0, y |-> 0, width |-> 10, height |-> 10]
          [] n = 29 -> [x |-> 0, y |-> 0, width |-> 20, height |-> 20]
          [] n = 30 -> [x |-> 0, y |-> 10, width |-> 10, height |-> 10]
          [] OTHER -> [x |-> 0, y |-> 0, width |-> NoSize, height |-> NoSize]]

\* node.transform {m00, m01, m02, m10, m11, m12} of the nodes that carry one
HasTransform == {13}

TransformOf ==
    [n \in GNodes |-> [m00 |-> 1, m01 |-> 0, m02 |-> Geometry[n].x,
                       m10 |-> 0, m11 |-> 1, m12 |-> Geometry[n].y]]

\* the colour of the first visible SOLID fill paint, "" when there is none
FillOf ==
    [n \in GNodes |->
        CASE n \in {5, 12} -> "red"
          [] n = 13 -> "blue"
          [] n = 11 -> "white"
          [] n = 17 -> "c17"
          [] n = 18 -> "c18"
          [] n = 19 -> "c19"
          [] n = 20 -> "c20"
          [] n = 21 -> "c21"
          [] n = 22 -> "c22"
          [] n = 23 -> "c23"
          [] n = 24 -> "c24"
          [] n = 25 -> "c25"
          [] n = 26 -> "c26"
          [] n = 28 -> "c28"
          [] n = 29 -> "c29"
          [] n = 30 -> "c30"
          [] OTHER -> ""]

\* node.effects: the visible shadow effects, in order
EffectsOf ==
    [n \in GNodes |->
        CASE n \in {13, 22} -> <<"DROP_SHADOW">>
          [] n = 19 -> <<"DROP_SHADOW", "INNER_SHADOW", "DROP_SHADOW">>
          [] OTHER -> <<>>]

\* the nodes whose `visible` is false in the file
InvisibleNodes == {20, 22}

\* the nodes with isMask
MaskNodes == {12, 18, 20, 25, 29}

\* the nodes with clipsContent
ClippingNodes == {11, 22, 27}

\* the node object of the parsed tree with id n, as a value. symRef names the
\* symbolData object (shared with every shallow clone); symOwn is the symbolID
\* of a symbolData object a clone created for itself.
RECURSIVE NodeVal(_)
NodeVal(n) ==
    [id |-> n, type |-> TypeOf[n], visible |-> (n \notin InvisibleNodes),
     characters |-> CharactersOf[n],
     symRef |-> IF n \in InstanceNodes THEN n ELSE NoNode,
     symOwn |-> NoNode,
     x |-> Geometry[n].x, y |-> Geometry[n].y,
     width |-> Geometry[n].width, height |-> Geometry[n].height,
     hasTransform |-> (n \in HasTransform), transform |-> TransformOf[n],
     fill |-> FillOf[n], effects |-> EffectsOf[n],
     isMask |-> (n \in MaskNodes), clipsContent |-> (n \in ClippingNodes),
     children |-> [i \in 1..Len(KidsOf[n]) |-> NodeVal(KidsOf[n][i])]]

\* an absent string field; JavaScript treats "" and undefined alike in the
\* truthiness tests of applyOverrideToNode
NoText == ""

\* a component-property assignment: {defID, value: textValue | boolValue | guidValue}
Assignment(def, chars, vis, sym) ==
    [defId |-> def, characters |-> chars, visible |-> vis, symbolId |-> sym]

\* a symbolOverrides entry: {guidPath, characters?, componentPropAssignments?}
OverrideEntry(path, chars, cpa) ==
    [guidPath |-> path, characters |-> chars, componentPropAssignments |-> cpa]

\* the symbolOverrides entries an instance of symbol A may carry
OverrideEntries ==
    {OverrideEntry(<<6, 9>>, "a", <<>>),
     OverrideEntry(<<9>>, "a", <<>>), OverrideEntry(<<9>>, "b", <<>>),
     OverrideEntry(<<6>>, NoText, <<Assignment(2, NoText, "unset", 4)>>),
     OverrideEntry(<<6>>, NoText, <<Assignment(3, "c", "unset", NoNode)>>)}

\* the instance-level componentPropAssignments an instance of A may carry
TopLevelAssignments ==
    { <<>>,
      <<Assignment(1, NoText, "hidden", NoNode)>>,
      <<Assignment(2, NoText, "unset", 3)>> }

MaxOverrides == 2

RECURSIVE SeqsUpTo(_, _)
SeqsUpTo(S, n) ==
    IF n = 0 THEN {<<>>}
    ELSE LET shorter == SeqsUpTo(S, n - 1)
         IN  shorter \cup {Append(q, e) : q \in shorter, e \in S}

----------------------------------------------------------------------------
(* JavaScript Maps keep insertion order: a Map is a sequence of            *)
(* [key, val]; set() replaces in place or appends                          *)

MapIndex(m, k) ==
    IF \E i \in 1..Len(m) : m[i].key = k
    THEN CHOOSE i \in 1..Len(m) : m[i].key = k
    ELSE 0

MapHas(m, k) == MapIndex(m, k) # 0

MapGet(m, k) == m[MapIndex(m, k)].val

MapSet(m, k, v) ==
    IF MapHas(m, k)
    THEN [m EXCEPT ![MapIndex(m, k)] = [key |-> k, val |-> v]]
    ELSE Append(m, [key |-> k, val |-> v])

----------------------------------------------------------------------------
(* instance-resolver.ts *)

\* rawNodeIndex.get(id).symbolData.symbolOverrides
SymbolOverridesOf(n) ==
    CASE n = 7 -> rawOverrides
      [] n = 8 -> <<OverrideEntry(<<5>>, "a", <<>>)>>
      [] OTHER -> <<>>

\* rawNodeIndex.get(id).componentPropAssignments
AssignmentsOf(n) == IF n = 7 THEN rawAssignments ELSE <<>>

\* an OverrideData with no field set
EmptyData ==
    [characters |-> NoText, visible |-> "unset", overrideSymbolId |-> NoNode,
     componentPropAssignments |-> <<>>]

\* { ...existing, ...data }: the fields data has replace those of existing
SpreadData(existing, data) ==
    [characters |-> IF data.characters # NoText THEN data.characters
                    ELSE existing.characters,
     visible |-> IF data.visible # "unset" THEN data.visible ELSE existing.visible,
     overrideSymbolId |-> IF data.overrideSymbolId # NoNode THEN data.overrideSymbolId
                          ELSE existing.overrideSymbolId,
     componentPropAssignments |->
        IF data.componentPropAssignments # <<>> THEN data.componentPropAssignments
        ELSE existing.componentPropAssignments]

\* one iteration of the symbolOverrides loop: upsert(path), then the fields
UpsertOverride(overrides, o) ==
    LET entry == IF MapHas(overrides, o.guidPath) THEN MapGet(overrides, o.guidPath)
                 ELSE EmptyData
    IN  MapSet(overrides, o.guidPath,
               [entry EXCEPT
                  !.characters = IF o.characters # NoText THEN o.characters ELSE @,
                  !.componentPropAssignments = @ \o o.componentPropAssignments])

RECURSIVE buildOverrideDataFrom(_, _, _)
buildOverrideDataFrom(symbolOverrides, i, overrides) ==
    IF i > Len(symbolOverrides) THEN overrides
    ELSE IF symbolOverrides[i].guidPath = <<>>
         THEN buildOverrideDataFrom(symbolOverrides, i + 1, overrides)
         ELSE buildOverrideDataFrom(symbolOverrides, i + 1,
                                    UpsertOverride(overrides, symbolOverrides[i]))

\* Map path -> OverrideData, in the order the paths first appear
buildOverrideData(instance) ==
    buildOverrideDataFrom(SymbolOverridesOf(instance), 1, <<>>)

RECURSIVE PathWalk(_, _, _, _)
RECURSIVE PathWalkKids(_, _, _, _, _)
\* buildOverridePathMap.walk: the pathMap.set(path, nodeId) calls made while
\* walking node n reached by `path`, in the order they are made
PathWalk(h, n, path, symbolStack) ==
    LET key == OverrideKey[n]
        nextPath == IF key # NoNode THEN Append(path, key) ELSE path
        own == IF key = NoNode THEN <<>>
               ELSE IF Len(nextPath) > 1
               THEN <<[key |-> nextPath, val |-> n], [key |-> Tail(nextPath), val |-> n]>>
               ELSE <<[key |-> nextPath, val |-> n]>>
        symbolId == IF n \in DOMAIN h THEN h[n] ELSE NoNode
        viaSymbol == IF TypeOf[n] = "INSTANCE" /\ symbolId \in GNodes
                        /\ Len(KidsOf[symbolId]) > 0
                        /\ symbolId \notin symbolStack
                     THEN PathWalkKids(h, KidsOf[symbolId], 1, nextPath,
                                       symbolStack \cup {symbolId})
                     ELSE <<>>
    IN  own \o viaSymbol \o PathWalkKids(h, KidsOf[n], 1, nextPath, symbolStack)

PathWalkKids(h, kids, i, path, symbolStack) ==
    IF i > Len(kids) THEN <<>>
    ELSE PathWalk(h, kids[i], path, symbolStack)
            \o PathWalkKids(h, kids, i + 1, path, symbolStack)

\* the pathMap.set calls of buildOverridePathMap(root, ...), in order
buildOverridePathMap(h, root) == PathWalk(h, root, <<>>, {})

\* pathMap.has(path) and pathMap.get(path): the last set of that path
PathMapHas(sets, path) == \E i \in 1..Len(sets) : sets[i].key = path

PathMapGet(sets, path) ==
    sets[CHOOSE i \in 1..Len(sets) :
            /\ sets[i].key = path
            /\ \A j \in (i + 1)..Len(sets) : sets[j].key # path].val

RECURSIVE ResolvePaths(_, _, _, _)
\* the loop that turns overrideData (by path) into overrideByNodeId
ResolvePaths(overrideData, pathMap, i, byNode) ==
    IF i > Len(overrideData) THEN byNode
    ELSE IF ~PathMapHas(pathMap, overrideData[i].key)
         THEN ResolvePaths(overrideData, pathMap, i + 1, byNode)
         ELSE LET nodeId == PathMapGet(pathMap, overrideData[i].key)
                  data == overrideData[i].val
              IN  ResolvePaths(overrideData, pathMap, i + 1,
                     MapSet(byNode, nodeId,
                            IF MapHas(byNode, nodeId)
                            THEN SpreadData(MapGet(byNode, nodeId), data)
                            ELSE data))

\* byDefId.get(defId): the last assignment of that definition, or none
LastAssignment(assignments, def) ==
    LET hits == {i \in 1..Len(assignments) : assignments[i].defId = def}
    IN  IF hits = {} THEN Assignment(def, NoText, "unset", NoNode)
        ELSE assignments[CHOOSE i \in hits : \A j \in hits : j <= i]

RECURSIVE ApplyRefs(_, _, _, _, _)
\* the refs loop of applyComponentPropAssignments.walk for node n
ApplyRefs(n, refs, j, assignments, byNode) ==
    IF j > Len(refs) THEN byNode
    ELSE LET a == LastAssignment(assignments, refs[j].defID)
             field == refs[j].componentPropNodeField
             existing == IF MapHas(byNode, n) THEN MapGet(byNode, n) ELSE EmptyData
             next ==
                IF \A i \in 1..Len(assignments) : assignments[i].defId # refs[j].defID
                THEN byNode
                ELSE IF field = "TEXT_DATA" /\ a.characters # NoText
                THEN MapSet(byNode, n, [existing EXCEPT !.characters = a.characters])
                ELSE IF field = "VISIBLE" /\ a.visible # "unset"
                THEN MapSet(byNode, n, [existing EXCEPT !.visible = a.visible])
                ELSE IF field = "OVERRIDDEN_SYMBOL_ID" /\ a.symbolId # NoNode
                THEN MapSet(byNode, n, [existing EXCEPT !.overrideSymbolId = a.symbolId])
                ELSE byNode
         IN  ApplyRefs(n, refs, j + 1, assignments, next)

RECURSIVE ApplyWalk(_, _, _, _)
\* applyComponentPropAssignments.walk over `kids` and their subtrees
ApplyWalk(kids, i, assignments, byNode) ==
    IF i > Len(kids) THEN byNode
    ELSE LET n == kids[i]
             own == ApplyRefs(n, ComponentPropRefs[n], 1, assignments, byNode)
             below == ApplyWalk(KidsOf[n], 1, assignments, own)
         IN  ApplyWalk(kids, i + 1, assignments, below)

applyComponentPropAssignments(h, instanceNodeId, assignments, byNode) ==
    IF instanceNodeId \notin DOMAIN h \/ h[instanceNodeId] \notin GNodes
    THEN byNode
    ELSE ApplyWalk(<<h[instanceNodeId]>>, 1, assignments, byNode)

RECURSIVE ApplyNested(_, _, _)
\* the loop over overrideByNodeId that applies each entry's own assignments
ApplyNested(h, i, byNode) ==
    IF i > Len(byNode) THEN byNode
    ELSE IF byNode[i].val.componentPropAssignments = <<>>
         THEN ApplyNested(h, i + 1, byNode)
         ELSE ApplyNested(h, i + 1,
                 applyComponentPropAssignments(h, byNode[i].key,
                     byNode[i].val.componentPropAssignments, byNode))

\* node.symbolData?.symbolID read through the node value v
SymbolIdOf(h, v) ==
    IF v.symOwn # NoNode THEN v.symOwn
    ELSE IF v.symRef # NoNode THEN h[v.symRef]
    ELSE NoNode

\* applyOverrideToNode on the shallow clone: the clone's own fields
applyOverrideToNode(clone, override) ==
    [clone EXCEPT
        !.characters = IF override.characters # NoText THEN override.characters ELSE @,
        !.visible = IF override.visible # "unset" THEN override.visible = "shown" ELSE @,
        !.symOwn = IF override.overrideSymbolId # NoNode /\ clone.symRef = NoNode
                   THEN override.overrideSymbolId ELSE @,
        !.children = IF override.overrideSymbolId # NoNode THEN <<>> ELSE @]

\* applyOverrideToNode, `node.symbolData.symbolID = override.overrideSymbolId`:
\* the clone is shallow, so an existing symbolData object is the original's
SymbolDataAfterOverride(h, clone, override) ==
    IF override.overrideSymbolId # NoNode /\ clone.symRef # NoNode
    THEN [h EXCEPT ![clone.symRef] = override.overrideSymbolId]
    ELSE h

\* cloneWithOverrides, lines 415-419: the shallow clone with its override
\* applied, and symbolID after that
Overridden(h, node, overrideByNodeId) ==
    IF MapHas(overrideByNodeId, node.id)
    THEN [clone |-> applyOverrideToNode(node, MapGet(overrideByNodeId, node.id)),
          heap |-> SymbolDataAfterOverride(h, node, MapGet(overrideByNodeId, node.id))]
    ELSE [clone |-> node, heap |-> h]

\* cloneWithOverrides without the symbolStack test of line 429
ExpandedSymbolIdIgnoringStack(h, clone, symbolStack) ==
    IF /\ Len(clone.children) = 0
       /\ clone.type = "INSTANCE"
       /\ SymbolIdOf(h, clone) \in GNodes
       /\ Len(KidsOf[SymbolIdOf(h, clone)]) > 0
    THEN SymbolIdOf(h, clone)
    ELSE NoNode

\* cloneWithOverrides, lines 420-434: the symbol whose children the clone
\* takes (expandedSymbolId), NoNode for null
ExpandedSymbolId(h, clone, symbolStack) ==
    IF /\ Len(clone.children) = 0
       /\ clone.type = "INSTANCE"
       /\ SymbolIdOf(h, clone) \in GNodes
       /\ Len(KidsOf[SymbolIdOf(h, clone)]) > 0
       /\ SymbolIdOf(h, clone) \notin symbolStack
    THEN SymbolIdOf(h, clone)
    ELSE NoNode

\* clone.children = children.map(...)
AttachClones(clone, done) ==
    [clone |-> [clone EXCEPT !.children = done.clones], heap |-> done.heap]

RECURSIVE cloneWithOverrides(_, _, _, _)
RECURSIVE CloneKids(_, _, _, _, _)
\* cloneWithOverrides, lines 436-444, for the overridden clone o and the
\* symbol it expands
CloneChildren(o, expandedSymbolId, overrideByNodeId, symbolStack) ==
    AttachClones(o.clone,
        IF expandedSymbolId # NoNode
        THEN CloneKids(o.heap, NodeVal(expandedSymbolId).children, 1, overrideByNodeId,
                       symbolStack \cup {expandedSymbolId})
        ELSE CloneKids(o.heap, o.clone.children, 1, overrideByNodeId, symbolStack))

\* returns [clone, heap]: the clone and symbolID after the call
CloneOverridden(o, overrideByNodeId, symbolStack) ==
    CloneChildren(o, ExpandedSymbolId(o.heap, o.clone, symbolStack),
                  overrideByNodeId, symbolStack)

cloneWithOverrides(h, node, overrideByNodeId, symbolStack) ==
    CloneOverridden(Overridden(h, node, overrideByNodeId), overrideByNodeId, symbolStack)

\* a map that loses the first clone
ConsCloneDroppingFirst(r, rest) ==
    [clones |-> rest.clones, heap |-> rest.heap]

\* [clones, heap] of the first clone r followed by the rest
ConsClone(r, rest) ==
    [clones |-> <<r.clone>> \o rest.clones, heap |-> rest.heap]

\* the clone r of kids[i], then the clones of the kids after it
CloneRest(r, kids, i, overrideByNodeId, symbolStack) ==
    ConsClone(r, CloneKids(r.heap, kids, i + 1, overrideByNodeId, symbolStack))

\* children.map(child => cloneWithOverrides(child, ...)), left to right
CloneKids(h, kids, i, overrideByNodeId, symbolStack) ==
    IF i > Len(kids) THEN [clones |-> <<>>, heap |-> h]
    ELSE CloneRest(cloneWithOverrides(h, kids[i], overrideByNodeId, symbolStack),
                   kids, i, overrideByNodeId, symbolStack)

\* overrideByNodeId as resolveInstanceChildren hands it to cloneWithOverrides;
\* isNull where the function returns null before cloning
OverrideByNodeId(h, instanceId, symbolId) ==
    LET overrideData == buildOverrideData(instanceId)
        pathMap == buildOverridePathMap(h, symbolId)
        byPath == ResolvePaths(overrideData, pathMap, 1, <<>>)
        assignments == AssignmentsOf(instanceId)
        top == IF Len(assignments) > 0
               THEN applyComponentPropAssignments(h, instanceId, assignments, byPath)
               ELSE byPath
    IN  IF Len(overrideData) = 0 \/ Len(byPath) = 0
        THEN [isNull |-> TRUE, map |-> <<>>]
        ELSE [isNull |-> FALSE, map |-> ApplyNested(h, 1, top)]

\* line 518-519: the children of the cloned symbol
ClonedSymbolChildren(r) ==
    [isNull |-> FALSE, children |-> r.clone.children, heap |-> r.heap]

\* resolveInstanceChildren after overrideByNodeId is built
ResolveWith(h, symbolId, byNode) ==
    IF byNode.isNull THEN [isNull |-> TRUE, children |-> <<>>, heap |-> h]
    ELSE ClonedSymbolChildren(cloneWithOverrides(h, NodeVal(symbolId), byNode.map, {}))

\* resolveInstanceChildren(instance, symbolNode, rawNodeIndex, nodeIndex):
\* the returned children (isNull for null) and symbolID after the call
resolveInstanceChildren(h, instanceId, symbolId) ==
    ResolveWith(h, symbolId, OverrideByNodeId(h, instanceId, symbolId))

----------------------------------------------------------------------------
(* render-utils.ts *)

IDENTITY_TRANSFORM == [a |-> 1, b |-> 0, c |-> 0, d |-> 1, e |-> 0, f |-> 0]

multiplyTransforms(parent, child) ==
    [a |-> parent.a * child.a + parent.c * child.b,
     b |-> parent.b * child.a + parent.d * child.b,
     c |-> parent.a * child.c + parent.c * child.d,
     d |-> parent.b * child.c + parent.d * child.d,
     e |-> parent.a * child.e + parent.c * child.f + parent.e,
     f |-> parent.b * child.e + parent.d * child.f + parent.f]

getLocalTransform(node) ==
    IF node.hasTransform
    THEN [a |-> node.transform.m00, b |-> node.transform.m10,
          c |-> node.transform.m01, d |-> node.transform.m11,
          e |-> node.transform.m02, f |-> node.transform.m12]
    ELSE [a |-> 1, b |-> 0, c |-> 0, d |-> 1, e |-> node.x, f |-> node.y]

transformPoint(x, y, t) ==
    [x |-> t.a * x + t.c * y + t.e, y |-> t.b * x + t.d * y + t.f]

----------------------------------------------------------------------------
(* render-screen.ts. The output is the sequence of SVG elements, each a    *)
(* record of the attributes the code prints; ids are <<prefix, counter>>. *)

MinOf(S) == CHOOSE m \in S : \A k \in S : m <= k

MaxOf(S) == CHOOSE m \in S : \A k \in S : k <= m

\* generateEffectFilters: the first visible drop shadow, else the first inner
\* shadow; returns the filter id (hasFilter FALSE for undefined) and ctx
generateEffectFilters(node, ctx, includeShadows) ==
    LET drops == \E i \in 1..Len(node.effects) : node.effects[i] = "DROP_SHADOW"
        inners == \E i \in 1..Len(node.effects) : node.effects[i] = "INNER_SHADOW"
        prefix == IF drops THEN "shadow" ELSE "inner-shadow"
        filterId == <<prefix, ctx.shadowCounter>>
    IN  IF ~includeShadows \/ Len(node.effects) = 0 \/ (~drops /\ ~inners)
        THEN [hasFilter |-> FALSE, filterId |-> <<"", 0>>, ctx |-> ctx]
        ELSE [hasFilter |-> TRUE, filterId |-> filterId,
              ctx |-> [ctx EXCEPT
                         !.shadowCounter = @ + 1,
                         !.defs = Append(@, [tag |-> "filter", id |-> filterId])]]

\* renderText: what it pushes to the output
renderText(node, transform) ==
    LET pos == transformPoint(0, 0, transform)
    IN  IF node.characters = "" THEN <<>>
        ELSE <<[tag |-> "text", x |-> pos.x, y |-> pos.y, text |-> node.characters]>>

\* the rx and ry attributes of a rect: absent, or the quotient num / den
NoRadius == [none |-> TRUE, num |-> 0, den |-> 1]
Radius(num, den) == [none |-> FALSE, num |-> num, den |-> den]

\* node.cornerRadius?: number | CornerRadius; a node record without the field
\* has none
NoCornerRadius == [kind |-> "undefined", value |-> 0]
NumberCornerRadius(value) == [kind |-> "number", value |-> value]
PerCornerRadius == [kind |-> "corners", value |-> 0]

\* typeof node.cornerRadius === "number" ? node.cornerRadius : undefined,
\* then if (cornerRadius): 0 stands for undefined and for 0
cornerRadiusNumber(node) ==
    IF "cornerRadius" \in DOMAIN node /\ node.cornerRadius.kind = "number"
    THEN node.cornerRadius.value
    ELSE 0

\* lines 409-420: clampedRadius = min(cornerRadius, min(width, height) / 2)
clampedRadius(node) ==
    IF cornerRadiusNumber(node) # 0
    THEN Radius(IF 2 * cornerRadiusNumber(node) <= node.width
                   /\ 2 * cornerRadiusNumber(node) <= node.height
                THEN 2 * cornerRadiusNumber(node)
                ELSE IF node.width <= node.height THEN node.width ELSE node.height,
                2)
    ELSE NoRadius

\* renderRectangle (solid fills, no strokes, no image fills)
renderRectangle(node, transform) ==
    LET p0 == transformPoint(0, 0, transform)
        p1 == transformPoint(node.width, 0, transform)
        p2 == transformPoint(node.width, node.height, transform)
        p3 == transformPoint(0, node.height, transform)
        isAxisAligned == p0.y = p1.y /\ p1.x = p2.x
    IN  IF node.fill = "" THEN <<>>
        ELSE IF isAxisAligned
        THEN <<[tag |-> "rect", x |-> p0.x, y |-> p0.y, width |-> node.width,
                height |-> node.height, fill |-> node.fill,
                rx |-> clampedRadius(node), ry |-> clampedRadius(node)]>>
        ELSE <<[tag |-> "path", points |-> <<p0, p1, p2, p3>>, fill |-> node.fill]>>

VECTOR_TYPES ==
    {"VECTOR", "LINE", "STAR", "REGULAR_POLYGON", "ELLIPSE", "BOOLEAN_OPERATION"}

CONTAINER_TYPES == {"FRAME", "GROUP", "COMPONENT", "INSTANCE"}

\* renderMaskContent: the fallback rectangle (no node has fillGeometry)
renderMaskContent(node, transform) ==
    LET pos == transformPoint(0, 0, transform)
    IN  [tag |-> "rect", x |-> pos.x, y |-> pos.y, width |-> node.width,
         height |-> node.height, fill |-> "white"]

\* renderNode, the type dispatch: the node's own primitive
OwnPrimitive(node, worldTransform, options) ==
    IF node.type = "TEXT" /\ options.includeText
    THEN renderText(node, worldTransform)
    ELSE IF node.type \in VECTOR_TYPES THEN <<>>
    ELSE IF node.type = "RECTANGLE"
    THEN IF options.includeFills \/ options.includeStrokes \/ options.includeImages
         THEN renderRectangle(node, worldTransform)
         ELSE <<>>
    ELSE IF node.type \in CONTAINER_TYPES
    THEN IF (options.includeFills \/ options.includeImages)
            /\ node.fill # "" /\ node.width # NoSize /\ node.height # NoSize
         THEN renderRectangle(node, worldTransform)
         ELSE <<>>
    ELSE <<>>

\* renderNode, lines 694-705: resolved is what resolveInstanceChildren returned
SymbolChildren(symbolId, resolved) ==
    IF ~resolved.isNull /\ Len(resolved.children) > 0
    THEN [children |-> resolved.children, heap |-> resolved.heap]
    ELSE [children |-> NodeVal(symbolId).children, heap |-> resolved.heap]

\* renderNode, lines 685-706: the children an INSTANCE without children gets
\* from its symbol; returns [children, heap]
ResolvedChildren(h, node, options) ==
    IF /\ node.type = "INSTANCE"
       /\ Len(node.children) = 0
       /\ SymbolIdOf(h, node) \in GNodes
       /\ options.hasNodeIndex
       /\ Len(KidsOf[SymbolIdOf(h, node)]) > 0
    THEN IF options.hasRawNodeIndex
         THEN SymbolChildren(SymbolIdOf(h, node),
                             resolveInstanceChildren(h, node.id, SymbolIdOf(h, node)))
         ELSE [children |-> NodeVal(SymbolIdOf(h, node)).children, heap |-> h]
    ELSE [children |-> node.children, heap |-> h]

\* renderNode, lines 686-694: the symbol whose children the node is given,
\* NoNode when it keeps its own
ExpandedSymbol(h, node, options) ==
    IF /\ node.type = "INSTANCE"
       /\ Len(node.children) = 0
       /\ SymbolIdOf(h, node) \in GNodes
       /\ options.hasNodeIndex
       /\ Len(KidsOf[SymbolIdOf(h, node)]) > 0
    THEN SymbolIdOf(h, node)
    ELSE NoNode

\* bookkeeping of the render call, not state of the code: the symbols whose
\* children are being rendered (symbolStack) and one entry for each time a
\* symbol's children were handed to the loop over the children
EnterSymbol(ctx, symbolId, depth) ==
    IF symbolId = NoNode THEN ctx
    ELSE [ctx EXCEPT
            !.symbolStack = Append(@, symbolId),
            !.expansions = Append(@, [symbol |-> symbolId, depth |-> depth,
                                      nested |-> \E i \in 1..Len(ctx.symbolStack) :
                                                    ctx.symbolStack[i] = symbolId])]

LeaveSymbol(symbolId, r) ==
    IF symbolId = NoNode THEN r
    ELSE [r EXCEPT !.ctx.symbolStack = SubSeq(@, 1, Len(@) - 1)]

\* the index of the next mask among kids[from..], Len(kids) + 1 when none
NextMask(kids, from) ==
    IF \E j \in from..Len(kids) : kids[j].isMask
    THEN MinOf({j \in from..Len(kids) : kids[j].isMask})
    ELSE Len(kids) + 1

\* two runs of output, one after the other
ThenOutput(first, rest) ==
    [out |-> first.out \o rest.out, ctx |-> rest.ctx, heap |-> rest.heap]

\* lines 776-779: the masked siblings in a group with the clip-path
MaskGroup(maskId, group) ==
    [out |-> <<[tag |-> "g", attr |-> "clip-path", ref |-> maskId, kids |-> group.out]>>,
     ctx |-> group.ctx, heap |-> group.heap]

\* a mask definition that leaves clipCounter alone
MaskDefinedKeepingCounter(ctx, mask, childTransform) ==
    [ctx EXCEPT
        !.defs = Append(@, [tag |-> "clipPath", id |-> <<"mask", ctx.clipCounter>>,
                            content |-> renderMaskContent(mask, childTransform)])]

\* lines 739-754: the mask id and the clipPath definition of a mask child
MaskDefined(ctx, mask, childTransform) ==
    [ctx EXCEPT
        !.clipCounter = @ + 1,
        !.defs = Append(@, [tag |-> "clipPath", id |-> <<"mask", ctx.clipCounter>>,
                            content |-> renderMaskContent(mask, childTransform)])]

\* lines 797-804: the children's output, in a clip group when the node clips
ClipChildren(node, worldTransform, loop) ==
    IF ~node.clipsContent THEN loop
    ELSE IF node.width # NoSize /\ node.height # NoSize
    THEN [out |-> <<[tag |-> "g", attr |-> "clip-path",
                     ref |-> <<"clip", loop.ctx.clipCounter>>, kids |-> loop.out]>>,
          ctx |-> [loop.ctx EXCEPT
                     !.clipCounter = @ + 1,
                     !.defs = Append(@,
                        [tag |-> "clipPath", id |-> <<"clip", loop.ctx.clipCounter>>,
                         content |-> [tag |-> "rect",
                                      x |-> transformPoint(0, 0, worldTransform).x,
                                      y |-> transformPoint(0, 0, worldTransform).y,
                                      width |-> node.width, height |-> node.height,
                                      fill |-> ""]])],
          heap |-> loop.heap]
    ELSE [out |-> <<>>, ctx |-> loop.ctx, heap |-> loop.heap]

\* lines 807-810: the node's output, in a filter group when it has a filter
WrapFilter(filter, own, below) ==
    [out |-> IF ~filter.hasFilter THEN own \o below.out
             ELSE IF Len(own \o below.out) > 0
             THEN <<[tag |-> "g", attr |-> "filter", ref |-> filter.filterId,
                     kids |-> own \o below.out]>>
             ELSE <<>>,
     ctx |-> below.ctx, heap |-> below.heap]

RECURSIVE renderNode(_, _, _, _, _, _)
RECURSIVE RenderRun(_, _, _, _, _, _, _, _)
RECURSIVE RenderChildren(_, _, _, _, _, _, _)

\* renderNode from line 615 on, for a node that is not skipped: rc is what
\* ResolvedChildren returned
RenderVisible(node, worldTransform, depth, options, filter, rc, expanded) ==
    WrapFilter(filter, OwnPrimitive(node, worldTransform, options),
        IF Len(rc.children) > 0
        THEN LeaveSymbol(expanded,
                ClipChildren(node, worldTransform,
                    RenderChildren(rc.heap, rc.children, 1, worldTransform, depth,
                                   options,
                                   EnterSymbol(filter.ctx, expanded, depth))))
        ELSE [out |-> <<>>, ctx |-> filter.ctx, heap |-> rc.heap])

\* returns [out, ctx, heap]: what the call pushes to `output`, the render
\* context and symbolID after it
renderNode(h, node, parentTransform, depth, options, ctx) ==
    IF depth > options.maxDepth \/ ~node.visible
    THEN [out |-> <<>>, ctx |-> ctx, heap |-> h]
    ELSE RenderVisible(node,
                       multiplyTransforms(parentTransform, getLocalTransform(node)),
                       depth, options,
                       generateEffectFilters(node, ctx, options.includeShadows),
                       ResolvedChildren(h, node, options),
                       ExpandedSymbol(h, node, options))

\* the output of sibling i, then renderNode on kids[i+1..j-1]
RunRest(first, kids, i, j, worldTransform, depth, options) ==
    ThenOutput(first, RenderRun(first.heap, kids, i + 1, j, worldTransform, depth,
                                options, first.ctx))

\* renderNode on kids[i..j-1], one after the other, into one output
RenderRun(h, kids, i, j, worldTransform, depth, options, ctx) ==
    IF i >= j THEN [out |-> <<>>, ctx |-> ctx, heap |-> h]
    ELSE RunRest(renderNode(h, kids[i], worldTransform, depth + 1, options, ctx),
                 kids, i, j, worldTransform, depth, options)

\* the output so far, then the loop from child `index` on
LoopRest(first, kids, index, worldTransform, depth, options) ==
    ThenOutput(first, RenderChildren(first.heap, kids, index, worldTransform, depth,
                                     options, first.ctx))

\* the while loop over the children: a mask child opens a clip-path group
\* that holds its following siblings up to the next mask
RenderChildren(h, kids, index, worldTransform, depth, options, ctx) ==
    IF index > Len(kids) THEN [out |-> <<>>, ctx |-> ctx, heap |-> h]
    ELSE IF kids[index].isMask
    THEN LoopRest(
            MaskGroup(<<"mask", ctx.clipCounter>>,
                RenderRun(h, kids, index + 1, NextMask(kids, index + 1), worldTransform,
                          depth, options,
                          MaskDefined(ctx, kids[index],
                              multiplyTransforms(worldTransform,
                                                 getLocalTransform(kids[index]))))),
            kids, NextMask(kids, index + 1), worldTransform, depth, options)
    ELSE LoopRest(renderNode(h, kids[index], worldTransform, depth + 1, options, ctx),
                  kids, index + 1, worldTransform, depth, options)

NoBounds == [none |-> TRUE, minX |-> 0, minY |-> 0, maxX |-> 0, maxY |-> 0]

\* the box around a non-empty set of points
BoundsOfPoints(S) ==
    [none |-> FALSE,
     minX |-> MinOf({p.x : p \in S}), minY |-> MinOf({p.y : p \in S}),
     maxX |-> MaxOf({p.x : p \in S}), maxY |-> MaxOf({p.y : p \in S})]

\* Math.min / Math.max of two boxes, Infinity standing for `none`
JoinBounds(b1, b2) ==
    IF b1.none THEN b2
    ELSE IF b2.none THEN b1
    ELSE [none |-> FALSE,
          minX |-> MinOf({b1.minX, b2.minX}), minY |-> MinOf({b1.minY, b2.minY}),
          maxX |-> MaxOf({b1.maxX, b2.maxX}), maxY |-> MaxOf({b1.maxY, b2.maxY})]

RECURSIVE collectBounds(_, _)
RECURSIVE CollectChildren(_, _, _)
collectBounds(node, parentTransform) ==
    LET worldTransform == multiplyTransforms(parentTransform, getLocalTransform(node))
        isPageNode == node.type \in {"CANVAS", "DOCUMENT"}
        own == IF isPageNode \/ node.width = NoSize \/ node.height = NoSize
               THEN NoBounds
               ELSE BoundsOfPoints({transformPoint(0, 0, worldTransform),
                                    transformPoint(node.width, 0, worldTransform),
                                    transformPoint(node.width, node.height, worldTransform),
                                    transformPoint(0, node.height, worldTransform)})
    IN  IF ~node.visible THEN NoBounds
        ELSE JoinBounds(own, CollectChildren(node.children, 1, worldTransform))

\* the loop over node.children: the box around the children's boxes
CollectChildren(kids, i, worldTransform) ==
    IF i > Len(kids) THEN NoBounds
    ELSE JoinBounds(collectBounds(kids[i], worldTransform),
                    CollectChildren(kids, i + 1, worldTransform))

\* renderScreen, lines 902-935: the result for the box `bounds`; r is what
\* renderNode returned
ScreenResult(bounds, r) ==
    [svg |-> [empty |-> FALSE, defs |-> r.ctx.defs, body |-> r.out],
     width |-> MaxOf({1, bounds.maxX - bounds.minX}),
     height |-> MaxOf({1, bounds.maxY - bounds.minY}),
     warnings |-> <<>>, heap |-> r.heap, expansions |-> r.ctx.expansions]

\* renderScreen after the bounds pass
RenderInBounds(h, n, options, bounds) ==
    IF bounds.none
    THEN [svg |-> [empty |-> TRUE, defs |-> <<>>, body |-> <<>>],
          width |-> 0, height |-> 0,
          warnings |-> <<"No bounds found for node subtree">>, heap |-> h,
          expansions |-> <<>>]
    ELSE ScreenResult(bounds,
            renderNode(h, NodeVal(n),
                       [a |-> 1, b |-> 0, c |-> 0, d |-> 1,
                        e |-> 0 - bounds.minX, f |-> 0 - bounds.minY],
                       0, options,
                       [defs |-> <<>>, clipCounter |-> 0, shadowCounter |-> 0,
                        symbolStack |-> <<>>, expansions |-> <<>>]))

\* renderScreen(node, images, blobs, options): the result and symbolID after
renderScreen(h, n, options) ==
    RenderInBounds(h, n, options, collectBounds(NodeVal(n), IDENTITY_TRANSFORM))

----------------------------------------------------------------------------
(* Calls on the exposed graph *)

MaxDepths == {1, 4}

\* the options a caller passes; nodeIndex and rawNodeIndex come together
\* (render-single.ts) or not at all
RenderOptions ==
    [maxDepth : MaxDepths, includeText : {TRUE}, includeFills : {TRUE},
     includeStrokes : {TRUE}, includeImages : {FALSE}, includeShadows : {TRUE},
     hasNodeIndex : BOOLEAN, hasRawNodeIndex : BOOLEAN]

CallerOptions == {o \in RenderOptions : o.hasNodeIndex = o.hasRawNodeIndex}

\* the nodes a caller asks to render
RenderRoots == {7, 8, 11, 16, 27}

\* the instances that carry symbolOverrides
OverriddenInstances == {7, 8}

\* the tree builder is not running while the graph is in use
TreeIdle ==
    /\ nodeChanges = <<>>
    /\ nodeMap = <<>>
    /\ childrenMap = <<>>
    /\ documentNode = 0
    /\ children = <<>>
    /\ byId = <<>>
    /\ byIdToPath = <<>>
    /\ warnings = {}
    /\ treePc = "idle"

Init ==
    /\ TreeIdle
    /\ ServerIdle
    /\ CloneIdle
    /\ symbolID = InitialSymbolID
    /\ rawOverrides \in SeqsUpTo(OverrideEntries, MaxOverrides)
    /\ rawAssignments \in TopLevelAssignments
    /\ last = [op |-> "none"]

\* resolveInstanceChildren(instance, symbolNode, rawNodeIndex, nodeIndex)
Resolve(i) ==
    LET symbolId == symbolID[i]
        r == resolveInstanceChildren(symbolID, i, symbolId)
    IN  /\ symbolID' = r.heap
        /\ last' = [op |-> "resolve", node |-> i, symbolId |-> symbolId,
                    isNull |-> r.isNull, children |-> r.children]
        /\ UNCHANGED <<rawOverrides, rawAssignments>>
        /\ UNCHANGED <<treeVars, cloneVars, callVars, serverVars>>

\* renderScreen(node, images, blobs, options)
Render(n, options) ==
    LET r == renderScreen(symbolID, n, options)
    IN  /\ symbolID' = r.heap
        /\ last' = [op |-> "render", node |-> n, options |-> options,
                    svg |-> r.svg, width |-> r.width, height |-> r.height,
                    warnings |-> r.warnings, expansions |-> r.expansions]
        /\ UNCHANGED <<rawOverrides, rawAssignments>>
        /\ UNCHANGED <<treeVars, cloneVars, callVars, serverVars>>

Next ==
    \/ \E i \in OverriddenInstances : Resolve(i)
    \/ \E n \in RenderRoots, options \in CallerOptions : Render(n, options)

Spec == Init /\ [][Next]_vars

----------------------------------------------------------------------------
(* cloneWithOverrides, one call or return per step *)

MaxCloneDepth == 8

\* the clone is an INSTANCE without children whose symbol has children but
\* is on symbolStack: line 429 refuses the expansion
CutBySymbolStack(h, clone, symbolStack) ==
    /\ Len(clone.children) = 0
    /\ clone.type = "INSTANCE"
    /\ SymbolIdOf(h, clone) \in GNodes
    /\ Len(KidsOf[SymbolIdOf(h, clone)]) > 0
    /\ SymbolIdOf(h, clone) \in symbolStack

\* a call in progress: the children being mapped, the index of the next
\* child to clone, and expandedSymbolId
CloneFrame(kids, expandedSymbolId) ==
    [kids |-> kids, idx |-> 1, expanded |-> expandedSymbolId]

\* the children line 436 maps over
ChildrenToClone(clone, expandedSymbolId) ==
    IF expandedSymbolId # NoNode THEN NodeVal(expandedSymbolId).children
    ELSE clone.children

\* resolveInstanceChildren up to line 518: null, or the call
\* cloneWithOverrides(symbolNode, overrideByNodeId, nodeIndex, new Set())
CloneStart(i) ==
    /\ clonePc = "idle"
    /\ LET byNode == OverrideByNodeId(symbolID, i, symbolID[i]) IN
        /\ cloneOf' = i
        /\ overrideMap' = byNode.map
        /\ cloneStack' = IF byNode.isNull THEN <<>>
                         ELSE <<CloneFrame(<<NodeVal(symbolID[i])>>, NoNode)>>
        /\ clonePc' = IF byNode.isNull THEN "done" ELSE "cloning"
        /\ UNCHANGED <<cloneSymbols, cloneCount, cloneCuts>>
        /\ UNCHANGED <<graphVars, treeVars, callVars, serverVars>>

\* lines 414-437: the call for the next child: clone it, apply its override,
\* choose the children to map
CloneEnter ==
    LET top == cloneStack[Len(cloneStack)]
        o == Overridden(symbolID, top.kids[top.idx], overrideMap)
        expandedSymbolId == ExpandedSymbolId(o.heap, o.clone, cloneSymbols)
    IN  /\ clonePc = "cloning"
        /\ Len(cloneStack) < MaxCloneDepth
        /\ top.idx <= Len(top.kids)
        /\ symbolID' = o.heap
        /\ cloneSymbols' = IF expandedSymbolId # NoNode
                           THEN cloneSymbols \cup {expandedSymbolId}
                           ELSE cloneSymbols
        /\ cloneStack' = Append(cloneStack,
                                CloneFrame(ChildrenToClone(o.clone, expandedSymbolId),
                                           expandedSymbolId))
        /\ cloneCount' = cloneCount + 1
        /\ cloneCuts' = IF CutBySymbolStack(o.heap, o.clone, cloneSymbols)
                        THEN cloneCuts + 1 ELSE cloneCuts
        /\ UNCHANGED <<cloneOf, overrideMap, clonePc>>
        /\ UNCHANGED <<rawOverrides, rawAssignments, last>>
        /\ UNCHANGED <<treeVars, callVars, serverVars>>

\* lines 441-444: all children are mapped; symbolStack.delete, return to the
\* caller's map
CloneReturn ==
    LET top == cloneStack[Len(cloneStack)]
        caller == cloneStack[Len(cloneStack) - 1]
    IN  /\ clonePc = "cloning"
        /\ Len(cloneStack) > 1
        /\ top.idx > Len(top.kids)
        /\ cloneSymbols' = cloneSymbols \ {top.expanded}
        /\ cloneStack' = [SubSeq(cloneStack, 1, Len(cloneStack) - 1)
                            EXCEPT ![Len(cloneStack) - 1] =
                                       [caller EXCEPT !.idx = caller.idx + 1]]
        /\ UNCHANGED <<cloneOf, overrideMap, cloneCount, cloneCuts, clonePc>>
        /\ UNCHANGED <<graphVars, treeVars, callVars, serverVars>>

\* line 519: the clone of the symbol is back in resolveInstanceChildren
CloneDone ==
    /\ clonePc = "cloning"
    /\ Len(cloneStack) = 1
    /\ cloneStack[1].idx > Len(cloneStack[1].kids)
    /\ cloneStack' = <<>>
    /\ clonePc' = "done"
    /\ UNCHANGED <<cloneOf, overrideMap, cloneSymbols, cloneCount, cloneCuts>>
    /\ UNCHANGED <<graphVars, treeVars, callVars, serverVars>>

\* the steps of a call that has started
CloneStep ==
    \/ CloneEnter
    \/ CloneReturn
    \/ CloneDone

CloneNext ==
    \/ \E i \in OverriddenInstances : CloneStart(i)
    \/ CloneStep

\* a started call that can make a step makes it: JavaScript runs the call to
\* completion; nothing obliges a caller to start one
SpecClone == Init /\ [][CloneNext]_vars /\ WF_vars(CloneStep)

----------------------------------------------------------------------------
(* Claims about the exposed graph, the resolver and the renderer *)

\* C5: once the graph is exposed it is read-only: after any sequence of
\* instance resolutions and render calls every node of the original graph,
\* and the symbol linkage object it references, has the field values it had
\* before. (symbolData.symbolID is the one field of an original node that any
\* code path of the resolver can reach for writing.)
C5_GraphReadOnly == symbolID = InitialSymbolID

RECURSIVE CountNodes(_)
\* the number of nodes of a forest of clones
CountNodes(forest) ==
    IF Len(forest) = 0 THEN 0
    ELSE 1 + CountNodes(forest[1].children) + CountNodes(Tail(forest))

\* C6: resolving an instance's children terminates and yields a finite
\* clone, also when INSTANCE -> SYMBOL -> INSTANCE references form a cycle:
\* every call of cloneWithOverrides returns, and the nesting of the calls
\* stays below MaxCloneDepth.
C6_ResolveTerminates ==
    /\ (clonePc = "cloning") ~> (clonePc = "done")
    /\ [](Len(cloneStack) < MaxCloneDepth)

\* a resolution has returned after symbolStack refused to expand a symbol
\* that was being expanded
C6_Witness ==
    /\ clonePc = "done"
    /\ cloneCuts > 0
    /\ cloneCount > 1

\* the step machine makes the clones the operator cloneWithOverrides makes
\* and leaves the same symbolID behind
CloneStepsAgreeWithOperator ==
    clonePc = "done" =>
        LET r == resolveInstanceChildren(InitialSymbolID, cloneOf, InitialSymbolID[cloneOf])
        IN  /\ symbolID = r.heap
            /\ cloneCount = IF r.isNull THEN 0 ELSE 1 + CountNodes(r.children)
            /\ cloneSymbols = {}

RECURSIVE NodesOf(_)
\* every node value of a forest of clones, at any depth
NodesOf(forest) ==
    UNION {{forest[i]} \cup NodesOf(forest[i].children) : i \in 1..Len(forest)}

RECURSIVE Descendants(_)
\* the ids of the nodes below n in the parsed tree
Descendants(n) ==
    UNION {{KidsOf[n][i]} \cup Descendants(KidsOf[n][i]) : i \in 1..Len(KidsOf[n])}

\* what expanding the instance of the last resolve call gives: the resolved
\* children, or the symbol's own children when the resolver returned null
\* (renderNode, lines 696-701)
ExpansionOfLast ==
    IF last.isNull THEN NodeVal(last.symbolId).children ELSE last.children

LastCharactersAt(path) ==
    rawOverrides[CHOOSE i \in 1..Len(rawOverrides) :
                    /\ rawOverrides[i].guidPath = path
                    /\ \A j \in (i + 1)..Len(rawOverrides) :
                          rawOverrides[j].guidPath # path].characters

SetsCharactersAt(path) ==
    \E i \in 1..Len(rawOverrides) :
        rawOverrides[i].guidPath = path /\ rawOverrides[i].characters # NoText

\* no entry sets the text of node 9 through a component property
NoTextAssignment ==
    \A i \in 1..Len(rawOverrides) : rawOverrides[i].componentPropAssignments = <<>>

\* C8: when a deeper override (path 6 > 9) and a shallower one (path 9) both
\* set the characters of symbol descendant 9, the resolved clone carries the
\* deeper override's value; when the same path is mentioned twice the later
\* entry's value is applied.
C8_DeeperOverrideWins ==
    (last.op = "resolve" /\ last.node = 7 /\ ~last.isNull /\ NoTextAssignment) =>
        \A v \in NodesOf(last.children) :
            v.id = 9 =>
                /\ SetsCharactersAt(<<6, 9>>) => v.characters = LastCharactersAt(<<6, 9>>)
                /\ (SetsCharactersAt(<<9>>) /\ ~SetsCharactersAt(<<6, 9>>))
                      => v.characters = LastCharactersAt(<<9>>)

\* the half of C8 the code does satisfy: with one path only, the last entry wins
LastEntryOfOnePathWins ==
    (last.op = "resolve" /\ last.node = 7 /\ ~last.isNull /\ NoTextAssignment) =>
        \A v \in NodesOf(last.children) :
            v.id = 9 =>
                /\ (SetsCharactersAt(<<9>>) /\ ~SetsCharactersAt(<<6, 9>>))
                      => v.characters = LastCharactersAt(<<9>>)
                /\ (SetsCharactersAt(<<6, 9>>) /\ ~SetsCharactersAt(<<9>>))
                      => v.characters = LastCharactersAt(<<6, 9>>)

\* C9: render is idempotent and deterministic: a render call returns what
\* the same call returns on the graph as it was exposed, whichever calls ran
\* before it; ids are counted from zero in each call.
C9_RenderDeterministic ==
    last.op = "render" =>
        LET fresh == renderScreen(InitialSymbolID, last.node, last.options)
        IN  /\ last.svg = fresh.svg
            /\ last.width = fresh.width
            /\ last.height = fresh.height
            /\ last.warnings = fresh.warnings

RECURSIVE Primitives(_)
\* the rect, path and text elements of an output, inside groups too
Primitives(out) ==
    UNION {IF out[i].tag = "g" THEN Primitives(out[i].kids) ELSE {out[i]} :
              i \in 1..Len(out)}

\* the primitive lies inside the box 0..width by 0..height
InsideBox(e, width, height) ==
    CASE e.tag = "rect" ->
            /\ 0 <= e.x /\ e.x + e.width <= width
            /\ 0 <= e.y /\ e.y + e.height <= height
      [] e.tag = "path" ->
            \A k \in 1..Len(e.points) :
                /\ 0 <= e.points[k].x /\ e.points[k].x <= width
                /\ 0 <= e.points[k].y /\ e.points[k].y <= height
      [] e.tag = "text" ->
            /\ 0 <= e.x /\ e.x <= width
            /\ 0 <= e.y /\ e.y <= height

\* C10: the bounds pass and the render pass agree: every primitive the
\* render pass emits, those of on-demand instance resolution included, lies
\* inside the output box reported from the bounds pass.
C10_PrimitivesInsideOutputBox ==
    (last.op = "render" /\ ~last.svg.empty) =>
        \A e \in Primitives(last.svg.body) : InsideBox(e, last.width, last.height)

\* without the node indices no instance is expanded and the passes agree
PrimitivesInsideBoxWithoutIndices ==
    (last.op = "render" /\ ~last.svg.empty /\ ~last.options.hasNodeIndex) =>
        \A e \in Primitives(last.svg.body) : InsideBox(e, last.width, last.height)

----------------------------------------------------------------------------
(* Claims about masks, clipping, skipped nodes and shadows *)

\* the rendered roots whose children include masks
MaskContainers == {11, 16, 27}

\* the clipPath definition with id `ref`: the box of its content
MaskBox(defs, ref) ==
    LET d == defs[CHOOSE i \in 1..Len(defs) :
                    defs[i].tag = "clipPath" /\ defs[i].id = ref].content
    IN  [x |-> d.x, y |-> d.y, width |-> d.width, height |-> d.height]

\* the box a mask child of a root occupies (the root sits at the origin of
\* the output)
BoxOf(v) == [x |-> v.x, y |-> v.y, width |-> v.width, height |-> v.height]

RECURSIVE Placed(_, _, _)
\* the filled primitives of an output in document order, each with the boxes
\* of the mask groups it lies in, outermost first
Placed(out, defs, masks) ==
    IF Len(out) = 0 THEN <<>>
    ELSE (IF out[1].tag = "g"
          THEN Placed(out[1].kids, defs,
                      IF out[1].attr = "clip-path" /\ out[1].ref[1] = "mask"
                      THEN Append(masks, MaskBox(defs, out[1].ref))
                      ELSE masks)
          ELSE IF out[1].tag = "text" THEN <<>>
          ELSE <<[fill |-> out[1].fill, masks |-> masks]>>)
         \o Placed(Tail(out), defs, masks)

\* the children of a container that are no masks and draw something
DrawnChild(v) == ~v.isMask /\ v.visible /\ v.fill # ""

RECURSIVE ExpectedPlaces(_, _, _)
\* for the children kids[i..]: each drawn child with the mask group it
\* belongs in, `masks` being the group open at child i
ExpectedPlaces(kids, i, masks) ==
    IF i > Len(kids) THEN <<>>
    ELSE IF kids[i].isMask THEN ExpectedPlaces(kids, i + 1, <<BoxOf(kids[i])>>)
    ELSE (IF DrawnChild(kids[i])
          THEN <<[fill |-> kids[i].fill, masks |-> masks]>>
          ELSE <<>>)
         \o ExpectedPlaces(kids, i + 1, masks)

\* the primitives of `out` drawn for the children `kids` themselves
PlacesOfChildren(kids, out, defs) ==
    LET fills == {kids[i].fill : i \in {j \in 1..Len(kids) : DrawnChild(kids[j])}}
        IsChild(e) == e.fill \in fills
    IN  SelectSeq(Placed(out, defs, <<>>), IsChild)

\* C11: among the ordered children of a node, every non-mask sibling that
\* follows a mask is rendered inside the clip group of the nearest preceding
\* mask and of no other mask, siblings before the first mask are rendered
\* outside any mask group, and every non-mask child is rendered exactly
\* once, in source order.
C11_MaskGroupsSiblings ==
    (last.op = "render" /\ last.node \in MaskContainers) =>
        PlacesOfChildren(NodeVal(last.node).children, last.svg.body, last.svg.defs)
            = ExpectedPlaces(NodeVal(last.node).children, 1, <<>>)

\* C11 holds where the container's children reach the output
MaskGroupsSiblingsWhenEmitted ==
    (last.op = "render" /\ last.node \in MaskContainers
       /\ ~(NodeVal(last.node).clipsContent /\ NodeVal(last.node).width = NoSize)) =>
        PlacesOfChildren(NodeVal(last.node).children, last.svg.body, last.svg.defs)
            = ExpectedPlaces(NodeVal(last.node).children, 1, <<>>)

\* the rendered roots with clipsContent
ClippingRoots == {11, 27}

\* every drawn child of container v has a primitive among `prims`
ChildrenAmong(v, prims) ==
    \A i \in 1..Len(v.children) :
        DrawnChild(v.children[i]) =>
            \E e \in prims : e.tag # "text" /\ e.fill = v.children[i].fill

\* the output holds a clip group, its clipPath a rectangle of v's size, that
\* contains the children of v
ClipGroupHoldsChildren(v, body, defs) ==
    \E i \in 1..Len(body) :
        /\ body[i].tag = "g"
        /\ body[i].attr = "clip-path"
        /\ body[i].ref[1] = "clip"
        /\ MaskBox(defs, body[i].ref).width = v.width
        /\ MaskBox(defs, body[i].ref).height = v.height
        /\ ChildrenAmong(v, Primitives(body[i].kids))

\* C12: for every container with clipsContent set, all of its rendered
\* children appear in the output, wrapped in a rectangular clip that matches
\* the container's size.
C12_ClipWrapsChildren ==
    (last.op = "render" /\ last.node \in ClippingRoots) =>
        ClipGroupHoldsChildren(NodeVal(last.node), last.svg.body, last.svg.defs)

\* C12 holds for the containers that have a width and a height
ClipWrapsChildrenWhenSized ==
    (last.op = "render" /\ last.node \in ClippingRoots
       /\ NodeVal(last.node).width # NoSize /\ NodeVal(last.node).height # NoSize) =>
        ClipGroupHoldsChildren(NodeVal(last.node), last.svg.body, last.svg.defs)

RECURSIVE NodesBelow(_, _, _, _, _, _)
\* the nodes below a rendered root: the children kids, at `depth` and offset
\* (ox, oy) in the output, and their descendants; `skipped` says that line
\* 607 or 608 applies to the node or to one of its ancestors
NodesBelow(kids, ox, oy, depth, maxDepth, skipping) ==
    UNION {LET v == kids[i]
               skip == skipping \/ ~v.visible \/ depth > maxDepth
           IN  {[id |-> v.id, fill |-> v.fill, isMask |-> v.isMask,
                 effects |-> v.effects, skipped |-> skip,
                 box |-> [x |-> ox + v.x, y |-> oy + v.y,
                          width |-> v.width, height |-> v.height]]}
               \cup NodesBelow(v.children, ox + v.x, oy + v.y, depth + 1,
                               maxDepth, skip)
           : i \in 1..Len(kids)}

\* the nodes below the root of the last render call
BelowLastRoot ==
    NodesBelow(NodeVal(last.node).children, 0, 0, 1, last.options.maxDepth, FALSE)

\* node record s of NodesBelow left no primitive and no clipPath in the result
NothingFrom(s) ==
    /\ \A e \in Primitives(last.svg.body) : e.tag = "text" \/ e.fill # s.fill
    /\ \A k \in 1..Len(last.svg.defs) :
          last.svg.defs[k].tag = "clipPath" =>
              MaskBox(last.svg.defs, last.svg.defs[k].id) # s.box

\* the result has one filter definition for each node that is rendered and
\* has shadows, and no other
FiltersOnlyFromRendered ==
    Cardinality({k \in 1..Len(last.svg.defs) : last.svg.defs[k].tag = "filter"})
        = Cardinality({s \in BelowLastRoot :
                          ~s.skipped /\ ~s.isMask /\ Len(s.effects) > 0})

\* C13: a node with visible = false, or at a depth greater than maxDepth, is
\* skipped by the render pass: it contributes no primitive and no clip, mask
\* or filter definition to the output, and none of its descendants are
\* rendered.
C13_SkippedNodesContributeNothing ==
    (last.op = "render" /\ last.node \in MaskContainers) =>
        /\ \A s \in BelowLastRoot : s.skipped => NothingFrom(s)
        /\ FiltersOnlyFromRendered

\* C13 holds for the nodes that are no masks
SkippedNonMasksContributeNothing ==
    (last.op = "render" /\ last.node \in MaskContainers) =>
        /\ \A s \in BelowLastRoot : (s.skipped /\ ~s.isMask) => NothingFrom(s)
        /\ FiltersOnlyFromRendered

\* the rendered nodes below the last root that have an effect of type t
RenderedWith(t) ==
    {s \in BelowLastRoot :
        ~s.skipped /\ ~s.isMask /\ \E i \in 1..Len(s.effects) : s.effects[i] = t}

\* the filter definitions of the last result whose id starts with prefix
FilterDefs(prefix) ==
    {k \in 1..Len(last.svg.defs) :
        last.svg.defs[k].tag = "filter" /\ last.svg.defs[k].id[1] = prefix}

\* node record s has a shadow besides its first drop shadow and its first
\* inner shadow
HasRemainingShadow(s) ==
    \E i, j \in 1..Len(s.effects) : i < j /\ s.effects[i] = s.effects[j]

\* C18: when a node has multiple visible shadow effects and includeShadows is
\* set, the first drop shadow and the first inner shadow are both rendered,
\* and every remaining shadow effect is reported in the result's warnings.
C18_BothShadowsAndWarnings ==
    (last.op = "render" /\ last.node \in MaskContainers /\ last.options.includeShadows) =>
        /\ Cardinality(FilterDefs("shadow")) = Cardinality(RenderedWith("DROP_SHADOW"))
        /\ Cardinality(FilterDefs("inner-shadow")) = Cardinality(RenderedWith("INNER_SHADOW"))
        /\ (\E s \in BelowLastRoot : ~s.skipped /\ HasRemainingShadow(s))
              => Len(last.warnings) > 0

\* what the code does: one filter for each rendered node with shadows, the
\* drop shadow when there is one
OneFilterForEachShadowedNode ==
    (last.op = "render" /\ last.node \in MaskContainers /\ last.options.includeShadows) =>
        /\ Cardinality(FilterDefs("shadow")) = Cardinality(RenderedWith("DROP_SHADOW"))
        /\ Cardinality(FilterDefs("inner-shadow"))
              = Cardinality(RenderedWith("INNER_SHADOW") \ RenderedWith("DROP_SHADOW"))


(***************************************************************************)
(* Path commands (src/renderer/vector-renderer.ts): the binary blob form   *)
(* and the array form of one command list                                  *)
(***************************************************************************)

MaxPath == 3
MaxCut == 2

\* the operands that occur in the paths below
FloatValues == 0..2

\* DataView float32, little endian: the four bytes of an operand
Float32Bytes(v) ==
    CASE v = 0 -> <<0, 0, 0, 0>>
      [] v = 1 -> <<0, 0, 128, 63>>
      [] v = 2 -> <<0, 0, 0, 64>>

\* a float32 that is none of FloatValues
OtherFloat == 3

\* view.getFloat32(offset, true); offset counts from 0
getFloat32(bytes, offset) ==
    LET four == SubSeq(bytes, offset + 1, offset + 4)
    IN  IF \E v \in FloatValues : Float32Bytes(v) = four
        THEN CHOOSE v \in FloatValues : Float32Bytes(v) = four
        ELSE OtherFloat

\* a command code that neither decoder knows, and its letter
UnknownCode == 7
UnknownLetter == "X"

\* cmdArgCounts of decodePathCommands: cmdArgCounts[cmd] !== undefined
HasArgCount(cmd) == cmd \in {0, 1, 2, 3, 4, 5}

cmdArgCounts(cmd) ==
    CASE cmd = 0 -> 0
      [] cmd = 1 -> 2
      [] cmd = 2 -> 2
      [] cmd = 3 -> 4
      [] cmd = 4 -> 6
      [] cmd = 5 -> 4

PathCommand(cmd, values) == [cmd |-> cmd, values |-> values]

\* PathCommand[] | null
NullCommands == [isNull |-> TRUE, commands |-> <<>>]

CommandsOrNull(commands) ==
    IF Len(commands) > 0 THEN [isNull |-> FALSE, commands |-> commands]
    ELSE NullCommands

\* lines 179-182: the operands of one command, as many as the bytes hold
RECURSIVE readFloats(_, _, _)
readFloats(bytes, offset, remaining) ==
    IF remaining > 0 /\ offset + 4 <= Len(bytes)
    THEN LET rest == readFloats(bytes, offset + 4, remaining - 1)
         IN  [values |-> <<getFloat32(bytes, offset)>> \o rest.values,
              offset |-> rest.offset]
    ELSE [values |-> <<>>, offset |-> offset]

\* lines 173-184: while (offset < bytes.length), break at an unknown code
RECURSIVE decodeLoop(_, _)
decodeLoop(bytes, offset) ==
    IF offset >= Len(bytes) THEN <<>>
    ELSE IF ~HasArgCount(bytes[offset + 1]) THEN <<>>
    ELSE LET cmd == bytes[offset + 1]
             r == readFloats(bytes, offset + 1, cmdArgCounts(cmd))
         IN  <<PathCommand(cmd, r.values)>> \o decodeLoop(bytes, r.offset)

\* decodePathCommands(blobIndex, blobs, ctx): blob.none stands for an
\* undefined blobIndex or a blob without bytes
decodePathCommands(blob) ==
    IF blob.none THEN NullCommands
    ELSE CommandsOrNull(decodeLoop(blob.bytes, 0))

\* entries of the array form: a string or a number
StringEntry(s) == [isString |-> TRUE, s |-> s, n |-> 0]
NumberEntry(n) == [isString |-> FALSE, s |-> "", n |-> n]

toUpperCase(s) ==
    CASE s = "m" -> "M"
      [] s = "l" -> "L"
      [] s = "q" -> "Q"
      [] s = "c" -> "C"
      [] s = "z" -> "Z"
      [] OTHER -> s

\* cmdMap of decodePathCommandsFromArray: cmdMap[letter] !== undefined
InCmdMap(letter) == letter \in {"M", "L", "Q", "C", "Z"}

cmdMap(letter) ==
    CASE letter = "M" -> 1
      [] letter = "L" -> 2
      [] letter = "Q" -> 3
      [] letter = "C" -> 4
      [] letter = "Z" -> 0

argCounts(cmd) ==
    CASE cmd = 0 -> 0
      [] cmd = 1 -> 2
      [] cmd = 2 -> 2
      [] cmd = 3 -> 4
      [] cmd = 4 -> 6

\* let currentCmd: number | null = null
NoCurrentCmd == -1

\* lines 202-220: for (const entry of commands)
RECURSIVE arrayLoop(_, _, _)
arrayLoop(entries, currentCmd, buffer) ==
    IF entries = <<>> THEN <<>>
    ELSE IF Head(entries).isString
    THEN IF ~InCmdMap(toUpperCase(Head(entries).s))
         THEN arrayLoop(Tail(entries), currentCmd, buffer)
         ELSE IF cmdMap(toUpperCase(Head(entries).s)) = 0
         THEN <<PathCommand(0, <<>>)>>
              \o arrayLoop(Tail(entries), currentCmd, buffer)
         ELSE arrayLoop(Tail(entries), cmdMap(toUpperCase(Head(entries).s)), <<>>)
    ELSE IF currentCmd # NoCurrentCmd
    THEN IF Len(buffer) + 1 = argCounts(currentCmd)
         THEN <<PathCommand(currentCmd, Append(buffer, Head(entries).n))>>
              \o arrayLoop(Tail(entries), currentCmd, <<>>)
         ELSE arrayLoop(Tail(entries), currentCmd, Append(buffer, Head(entries).n))
    ELSE arrayLoop(Tail(entries), currentCmd, buffer)

\* decodePathCommandsFromArray(commands)
decodePathCommandsFromArray(commands) ==
    IF Len(commands) = 0 THEN NullCommands
    ELSE CommandsOrNull(arrayLoop(commands, NoCurrentCmd, <<>>))

\* ---- the command lists that are written in both forms
PathCommands ==
    {PathCommand(0, <<>>), PathCommand(UnknownCode, <<>>),
     PathCommand(3, <<1, 1, 2, 2>>), PathCommand(4, <<1, 1, 2, 2, 1, 1>>)}
    \cup {PathCommand(c, <<v, v>>) : c \in {1, 2}, v \in {1, 2}}

Paths == SeqsUpTo(PathCommands, MaxPath)

RECURSIVE FloatsToBytes(_)
FloatsToBytes(values) ==
    IF values = <<>> THEN <<>>
    ELSE Float32Bytes(Head(values)) \o FloatsToBytes(Tail(values))

\* the blob form: the code byte, then its operands as float32
RECURSIVE BlobOf(_)
BlobOf(path) ==
    IF path = <<>> THEN <<>>
    ELSE <<Head(path).cmd>> \o FloatsToBytes(Head(path).values)
         \o BlobOf(Tail(path))

LetterOf(cmd, lower) ==
    CASE cmd = 0 -> IF lower THEN "z" ELSE "Z"
      [] cmd = 1 -> IF lower THEN "m" ELSE "M"
      [] cmd = 2 -> IF lower THEN "l" ELSE "L"
      [] cmd = 3 -> IF lower THEN "q" ELSE "Q"
      [] cmd = 4 -> IF lower THEN "c" ELSE "C"
      [] OTHER -> UnknownLetter

RECURSIVE NumberEntries(_)
NumberEntries(values) ==
    IF values = <<>> THEN <<>>
    ELSE <<NumberEntry(Head(values))>> \o NumberEntries(Tail(values))

\* the array form: the letter, then its operands as numbers
RECURSIVE ArrayOf(_, _)
ArrayOf(path, lower) ==
    IF path = <<>> THEN <<>>
    ELSE <<StringEntry(LetterOf(Head(path).cmd, lower))>>
         \o NumberEntries(Head(path).values) \o ArrayOf(Tail(path), lower)

\* the blob with its last cut bytes missing
Truncated(bytes, cut) ==
    IF cut >= Len(bytes) THEN <<>> ELSE SubSeq(bytes, 1, Len(bytes) - cut)

PathInit ==
    /\ TreeIdle
    /\ ServerIdle
    /\ cloneOf = 0
    /\ overrideMap = <<>>
    /\ cloneStack = <<>>
    /\ cloneSymbols = {}
    /\ cloneCount = 0
    /\ cloneCuts = 0
    /\ clonePc = "idle"
    /\ symbolID = <<>>
    /\ rawOverrides = <<>>
    /\ rawAssignments = <<>>
    /\ last = [op |-> "none"]
    /\ call \in {[fn |-> "decodePath", path |-> p, cut |-> c, lower |-> l] :
                    p \in Paths, c \in 0..MaxCut, l \in BOOLEAN}
    /\ result = [fn |-> "decodePath", blobDone |-> FALSE, arrayDone |-> FALSE,
                 blob |-> NullCommands, array |-> NullCommands]

\* decodePathCommands on the blob form of the path
DecodeBlob ==
    /\ call.fn = "decodePath"
    /\ ~result.blobDone
    /\ result' = [result EXCEPT
                    !.blobDone = TRUE,
                    !.blob = decodePathCommands(
                                 [none |-> FALSE,
                                  bytes |-> Truncated(BlobOf(call.path), call.cut)])]
    /\ UNCHANGED <<call, graphVars, treeVars, cloneVars, serverVars>>

\* decodePathCommandsFromArray on the array form of the path
DecodeArray ==
    /\ call.fn = "decodePath"
    /\ ~result.arrayDone
    /\ result' = [result EXCEPT
                    !.arrayDone = TRUE,
                    !.array = decodePathCommandsFromArray(
                                  ArrayOf(call.path, call.lower))]
    /\ UNCHANGED <<call, graphVars, treeVars, cloneVars, serverVars>>

PathNext ==
    \/ DecodeBlob
    \/ DecodeArray

SpecPath == PathInit /\ [][PathNext]_vars

(***************************************************************************)
(* Claims about the path decoders                                          *)
(***************************************************************************)

BothDecoded == result.blobDone /\ result.arrayDone

\* the commands of the path before its first unknown code
RECURSIVE BeforeUnknown(_)
BeforeUnknown(path) ==
    IF path = <<>> THEN <<>>
    ELSE IF Head(path).cmd = UnknownCode THEN <<>>
    ELSE <<Head(path)>> \o BeforeUnknown(Tail(path))

\* C16: the blob form and the array form of a path decode to the same
\* command sequence, and in both forms nothing that follows an unknown code
\* is decoded
C16_FormsDecodeAlike ==
    (BothDecoded /\ call.cut = 0) =>
        /\ result.blob = result.array
        /\ Len(result.blob.commands) <= Len(BeforeUnknown(call.path))
        /\ Len(result.array.commands) <= Len(BeforeUnknown(call.path))

\* what does hold: a path of known codes decodes to itself in both forms, and
\* the blob decoder stops at the first unknown code
KnownCodesDecodeAlike ==
    (BothDecoded /\ call.cut = 0) =>
        /\ result.blob.commands = BeforeUnknown(call.path)
        /\ (BeforeUnknown(call.path) = call.path => result.array = result.blob)


(***************************************************************************)
(* Stroked vectors (src/renderer/vector-renderer.ts): the centerline of a  *)
(* vector network, structured or blob-encoded                              *)
(***************************************************************************)

MaxSegments == 2

\* vertexCount > 1000 || segmentCount > 1000
CountCeiling == 1000

\* const tolerance = 2
Tolerance == 2

XY(x, y) == [x |-> x, y |-> y]

\* normalizedSize, node.size: {x, y} | undefined
NoXY == [none |-> TRUE, x |-> 0, y |-> 0]
SomeXY(x, y) == [none |-> FALSE, x |-> x, y |-> y]

Endpoint(vertex, dx, dy) == [vertex |-> vertex, dx |-> dx, dy |-> dy]

\* a segment of the file; missing: one of start/end is absent
Segment(start, end) == [missing |-> FALSE, start |-> start, end |-> end]
SegmentWithoutEndpoint ==
    [missing |-> TRUE, start |-> Endpoint(0, 0, 0), end |-> Endpoint(0, 0, 0)]

\* DecodedVectorNetwork | null
NullNetwork == [isNull |-> TRUE, vertices |-> <<>>, segments |-> <<>>]
DecodedNetwork(vertices, segments) ==
    [isNull |-> FALSE, vertices |-> vertices, segments |-> segments]

\* vectorData.vectorNetwork absent
NoVectorNetwork == [none |-> TRUE, vertices |-> <<>>, segments |-> <<>>]

\* parseStructuredVectorNetwork(vectorData): segments.map reads s.start.vertex
\* and s.end.vertex, a TypeError when the endpoint is absent
parseStructuredVectorNetwork(vn) ==
    IF vn.none \/ Len(vn.vertices) = 0 \/ Len(vn.segments) = 0
    THEN [raised |-> FALSE, network |-> NullNetwork]
    ELSE IF \E i \in 1..Len(vn.segments) : vn.segments[i].missing
    THEN [raised |-> TRUE, network |-> NullNetwork]
    ELSE [raised |-> FALSE,
          network |-> DecodedNetwork(vn.vertices,
                          [i \in 1..Len(vn.segments) |->
                              [start |-> vn.segments[i].start,
                               end |-> vn.segments[i].end]])]

\* vectorData.vectorNetworkBlob undefined, or no bytes for that index
NoBlob ==
    [none |-> TRUE, short |-> FALSE, vertexCount |-> 0, segmentCount |-> 0,
     vertices |-> <<>>, segments |-> <<>>]

\* a blob: the two counts of its header, then the 12-byte vertices and the
\* 28-byte segments that its bytes hold; short: fewer than 12 bytes
Blob(vertexCount, segmentCount, vertices, segments) ==
    [none |-> FALSE, short |-> FALSE, vertexCount |-> vertexCount,
     segmentCount |-> segmentCount, vertices |-> vertices, segments |-> segments]
ShortBlob ==
    [none |-> FALSE, short |-> TRUE, vertexCount |-> 0, segmentCount |-> 0,
     vertices |-> <<>>, segments |-> <<>>]

\* lines 76-81 and 84-108: the loops stop at the count or where the bytes end
FirstOf(seq, count) ==
    IF count < Len(seq) THEN SubSeq(seq, 1, count) ELSE seq

\* lines 92-105: a segment is kept when both vertex indices exist
SegmentsInRange(segments, vertexTotal) ==
    SelectSeq(segments, LAMBDA seg : seg.start.vertex < vertexTotal
                                     /\ seg.end.vertex < vertexTotal)

\* decodeVectorNetworkBlob(blobIndex, blobs, ctx); the reads are inside the
\* bytes, so the catch at line 110 is not entered
decodeVectorNetworkBlob(blob) ==
    IF blob.none \/ blob.short THEN NullNetwork
    ELSE IF blob.vertexCount > CountCeiling \/ blob.segmentCount > CountCeiling
    THEN NullNetwork
    ELSE DecodedNetwork(
             FirstOf(blob.vertices, blob.vertexCount),
             SegmentsInRange(FirstOf(blob.segments, blob.segmentCount),
                             Len(FirstOf(blob.vertices, blob.vertexCount))))

\* createCenterlineFromNormalizedSize(normalizedSize)
createCenterlineFromNormalizedSize(normalizedSize) ==
    <<PathCommand(1, <<0, 0>>),
      PathCommand(2, <<normalizedSize.x, normalizedSize.y>>)>>

\* network.vertices[i] is defined
HasVertex(vertices, i) == i >= 0 /\ i < Len(vertices)

\* lines 257-269
OutsideTolerance(v, normalizedSize) ==
    \/ v.x < -Tolerance
    \/ v.y < -Tolerance
    \/ v.x > normalizedSize.x + Tolerance
    \/ v.y > normalizedSize.y + Tolerance

\* Math.abs(...) > 0.001 on one of the four tangents
hasCurve(seg) ==
    seg.start.dx # 0 \/ seg.start.dy # 0 \/ seg.end.dx # 0 \/ seg.end.dy # 0

\* lines 319-328: the command of one segment
SegmentCommand(vertices, seg) ==
    LET v0 == vertices[seg.start.vertex + 1]
        v1 == vertices[seg.end.vertex + 1]
    IN  IF hasCurve(seg)
        THEN PathCommand(4, <<v0.x + seg.start.dx, v0.y + seg.start.dy,
                              v1.x + seg.end.dx, v1.y + seg.end.dy, v1.x, v1.y>>)
        ELSE PathCommand(2, <<v1.x, v1.y>>)

\* lines 285-295: the first unused segment that starts at currentVertex,
\* else (297-310) the first unused segment
FoundIdx(validSegments, usedSegments, currentVertex) ==
    LET unused == (1..Len(validSegments)) \ usedSegments
        connected == {i \in unused : validSegments[i].start.vertex = currentVertex}
    IN  IF connected # {} THEN MinOf(connected) ELSE MinOf(unused)

\* lines 302-305: the move to a segment that is not connected
MoveTo(vertices, validSegments, usedSegments, currentVertex, foundIdx) ==
    IF validSegments[foundIdx].start.vertex # currentVertex
       /\ HasVertex(vertices, validSegments[foundIdx].start.vertex)
    THEN <<PathCommand(1, <<vertices[validSegments[foundIdx].start.vertex + 1].x,
                            vertices[validSegments[foundIdx].start.vertex + 1].y>>)>>
    ELSE <<>>

\* lines 281-331: while (usedSegments.size < validSegments.length)
RECURSIVE walkSegments(_, _, _, _)
walkSegments(vertices, validSegments, usedSegments, currentVertex) ==
    IF Cardinality(usedSegments) >= Len(validSegments) THEN <<>>
    ELSE LET foundIdx == FoundIdx(validSegments, usedSegments, currentVertex)
             foundSegment == validSegments[foundIdx]
         IN  MoveTo(vertices, validSegments, usedSegments, currentVertex, foundIdx)
             \o (IF ~HasVertex(vertices, foundSegment.start.vertex)
                    \/ ~HasVertex(vertices, foundSegment.end.vertex)
                 THEN walkSegments(vertices, validSegments,
                                   usedSegments \cup {foundIdx}, currentVertex)
                 ELSE <<SegmentCommand(vertices, foundSegment)>>
                      \o walkSegments(vertices, validSegments,
                                      usedSegments \cup {foundIdx},
                                      foundSegment.end.vertex))

\* lines 334-351: close the path if it ends where it started
closeIfLoop(commands) ==
    LET firstCmd == commands[1]
        lastVals == commands[Len(commands)].values
    IN  IF Len(commands) > 1
           /\ firstCmd.values[1] = lastVals[Len(lastVals) - 1]
           /\ firstCmd.values[2] = lastVals[Len(lastVals)]
        THEN Append(commands, PathCommand(0, <<>>))
        ELSE commands

\* createCenterlineFromNetwork(network, normalizedSize)
createCenterlineFromNetwork(network, normalizedSize) ==
    LET validSegments ==
            SelectSeq(network.segments,
                      LAMBDA seg : seg.start.vertex # seg.end.vertex)
    IN  IF Len(network.vertices) = 0 \/ Len(validSegments) = 0
        THEN NullCommands
        ELSE IF ~normalizedSize.none
                /\ \E i \in 1..Len(network.vertices) :
                       OutsideTolerance(network.vertices[i], normalizedSize)
        THEN NullCommands
        ELSE IF ~HasVertex(network.vertices, validSegments[1].start.vertex)
        THEN NullCommands
        ELSE CommandsOrNull(closeIfLoop(
                 <<PathCommand(1,
                       <<network.vertices[validSegments[1].start.vertex + 1].x,
                         network.vertices[validSegments[1].start.vertex + 1].y>>)>>
                 \o walkSegments(network.vertices, validSegments, {},
                                 validSegments[1].start.vertex)))

\* the points that computeCommandBounds visits in one command
PointsOfCommand(c) ==
    CASE c.cmd \in {1, 2} -> {XY(c.values[1], c.values[2])}
      [] c.cmd \in {3, 5} -> {XY(c.values[1], c.values[2]),
                              XY(c.values[3], c.values[4])}
      [] c.cmd = 4 -> {XY(c.values[1], c.values[2]), XY(c.values[3], c.values[4]),
                       XY(c.values[5], c.values[6])}
      [] OTHER -> {}

\* computeCommandBounds(commands), render-utils.ts
computeCommandBounds(commands) ==
    LET points == UNION {PointsOfCommand(commands[i]) : i \in 1..Len(commands)}
    IN  IF points = {} THEN NoBounds ELSE BoundsOfPoints(points)

\* a coordinate of the output: the quotient num / den
Quotient(num, den) == [num |-> num, den |-> den]

\* scaleX = cmdWidth > 0.001 ? targetWidth / cmdWidth : baseScaleX, with
\* baseScaleX = normalizedSize?.x ? targetWidth / normalizedSize.x : 1;
\* the local transform maps x to (x + offsetX) * scaleX
Scaled(x, offset, target, cmdExtent, normalizedExtent) ==
    IF cmdExtent > 0 THEN Quotient((x + offset) * target, cmdExtent)
    ELSE IF normalizedExtent # 0 THEN Quotient((x + offset) * target, normalizedExtent)
    ELSE Quotient(x + offset, 1)

\* node.size?.x ?? normalizedSize?.x ?? 1
TargetExtent(sizeNone, sizeExtent, normalizedNone, normalizedExtent) ==
    IF ~sizeNone THEN sizeExtent
    ELSE IF ~normalizedNone THEN normalizedExtent
    ELSE 1

\* buildSvgPath(commands, finalTransform) under an identity parent
\* transform: each command with its points transformed
buildSvgPath(commands, size, normalizedSize) ==
    LET b == computeCommandBounds(commands)
        tx(x) == Scaled(x, IF b.none THEN 0 ELSE -b.minX,
                        TargetExtent(size.none, size.x, normalizedSize.none,
                                     normalizedSize.x),
                        IF b.none THEN 0 ELSE b.maxX - b.minX,
                        IF normalizedSize.none THEN 0 ELSE normalizedSize.x)
        ty(y) == Scaled(y, IF b.none THEN 0 ELSE -b.minY,
                        TargetExtent(size.none, size.y, normalizedSize.none,
                                     normalizedSize.y),
                        IF b.none THEN 0 ELSE b.maxY - b.minY,
                        IF normalizedSize.none THEN 0 ELSE normalizedSize.y)
    IN  [i \in 1..Len(commands) |->
            [cmd |-> commands[i].cmd,
             values |-> [k \in 1..Len(commands[i].values) |->
                            IF k % 2 = 1 THEN tx(commands[i].values[k])
                            ELSE ty(commands[i].values[k])]]]

\* what renderStrokedVector leaves behind
StrokeResult(raised, rendered, source, centerline, path) ==
    [fn |-> "renderStrokedVector", raised |-> raised, rendered |-> rendered,
     source |-> source, centerline |-> centerline, path |-> path,
     warnings |-> <<>>]

\* lines 401-419: the three sources of the centerline, in priority order
Centerline(structured, blob, normalizedSize) ==
    LET fromNetwork ==
            IF ~structured.isNull /\ Len(structured.vertices) >= 2
            THEN createCenterlineFromNetwork(structured, normalizedSize)
            ELSE NullCommands
        blobNetwork == decodeVectorNetworkBlob(blob)
        fromBlob ==
            IF ~blob.none /\ ~blobNetwork.isNull /\ Len(blobNetwork.vertices) >= 2
            THEN createCenterlineFromNetwork(blobNetwork, normalizedSize)
            ELSE NullCommands
    IN  IF ~fromNetwork.isNull
        THEN [source |-> "network", commands |-> fromNetwork.commands]
        ELSE IF ~fromBlob.isNull
        THEN [source |-> "blob", commands |-> fromBlob.commands]
        ELSE IF ~normalizedSize.none
                /\ (normalizedSize.x > 0 \/ normalizedSize.y > 0)
        THEN [source |-> "size",
              commands |-> createCenterlineFromNormalizedSize(normalizedSize)]
        ELSE [source |-> "none", commands |-> <<>>]

\* renderStrokedVector(node, transform, blobs, ctx, output) for a node with
\* a visible solid stroke (isStrokedVector)
renderStrokedVector(node) ==
    LET parsed == parseStructuredVectorNetwork(node.vectorNetwork)
        centerline == Centerline(parsed.network, node.vectorNetworkBlob,
                                 node.normalizedSize)
    IN  IF parsed.raised
        THEN StrokeResult(TRUE, FALSE, "none", <<>>, <<>>)
        ELSE IF centerline.source = "none"
        THEN StrokeResult(FALSE, FALSE, "none", <<>>, <<>>)
        ELSE StrokeResult(FALSE, TRUE, centerline.source, centerline.commands,
                          buildSvgPath(centerline.commands, node.size,
                                       node.normalizedSize))

\* ---- the vector nodes that are rendered
PointA == XY(0, 0)
PointB == XY(10, 0)
PointC == XY(10, 10)
PointOutside == XY(13, 0)

\* more vertices than the ceiling of the blob decoder
ManyVertices == [i \in 1..(CountCeiling + 1) |-> IF i = 2 THEN PointB ELSE PointA]

VertexLists ==
    {<<>>, <<PointA>>, <<PointA, PointB>>, <<PointA, PointB, PointC>>,
     <<PointA, PointOutside>>, ManyVertices}

\* vertex index 5 is in no list but ManyVertices
Segments ==
    {Segment(Endpoint(s, dx, 0), Endpoint(e, 0, 0)) :
        s \in {0, 1, 5}, e \in {0, 1, 2}, dx \in {0, 5}}
    \cup {SegmentWithoutEndpoint}

VectorNetworks ==
    {NoVectorNetwork}
    \cup {[none |-> FALSE, vertices |-> v, segments |-> g] :
            v \in VertexLists, g \in SeqsUpTo(Segments, MaxSegments)}

BlobSegment(s, e) == [start |-> Endpoint(s, 0, 0), end |-> Endpoint(e, 0, 0)]

VectorBlobs ==
    {NoBlob, ShortBlob,
     Blob(2, 1, <<PointA, PointC>>, <<BlobSegment(0, 1)>>),
     Blob(2, 1, <<PointA>>, <<>>),
     Blob(2, 2, <<PointA, PointC>>, <<BlobSegment(0, 5), BlobSegment(1, 0)>>),
     Blob(CountCeiling + 1, 1, <<PointA, PointC>>, <<BlobSegment(0, 1)>>)}

NormalizedSizes == {NoXY, SomeXY(10, 10)}

VectorNodes ==
    {[vectorNetwork |-> vn, vectorNetworkBlob |-> b, normalizedSize |-> ns,
      size |-> SomeXY(20, 20)] :
        vn \in VectorNetworks, b \in VectorBlobs, ns \in NormalizedSizes}

VectorInit ==
    /\ TreeIdle
    /\ ServerIdle
    /\ cloneOf = 0
    /\ overrideMap = <<>>
    /\ cloneStack = <<>>
    /\ cloneSymbols = {}
    /\ cloneCount = 0
    /\ cloneCuts = 0
    /\ clonePc = "idle"
    /\ symbolID = <<>>
    /\ rawOverrides = <<>>
    /\ rawAssignments = <<>>
    /\ last = [op |-> "none"]
    /\ call \in {[fn |-> "renderStrokedVector", node |-> n] : n \in VectorNodes}
    /\ result = [fn |-> "none"]

RenderStrokedVector ==
    /\ call.fn = "renderStrokedVector"
    /\ result.fn = "none"
    /\ result' = renderStrokedVector(call.node)
    /\ UNCHANGED <<call, graphVars, treeVars, cloneVars, serverVars>>

VectorNext == RenderStrokedVector

SpecVector == VectorInit /\ [][VectorNext]_vars

(***************************************************************************)
(* Claims about malformed geometry and the bounds of accepted networks     *)
(***************************************************************************)

StrokeReturned == result.fn = "renderStrokedVector"

\* a structured network with a segment that lacks an endpoint or names a
\* vertex that does not exist
MalformedNetwork(vn) ==
    /\ ~vn.none
    /\ \E i \in 1..Len(vn.segments) :
           \/ vn.segments[i].missing
           \/ ~HasVertex(vn.vertices, vn.segments[i].start.vertex)
           \/ ~HasVertex(vn.vertices, vn.segments[i].end.vertex)

\* a blob that is shorter than its header says or names a vertex that does
\* not exist
MalformedBlob(blob) ==
    /\ ~blob.none
    /\ \/ blob.short
       \/ Len(blob.vertices) < blob.vertexCount
       \/ Len(blob.segments) < blob.segmentCount
       \/ \E i \in 1..Len(blob.segments) :
              \/ ~HasVertex(blob.vertices, blob.segments[i].start.vertex)
              \/ ~HasVertex(blob.vertices, blob.segments[i].end.vertex)

\* C14: rendering a vector with malformed geometry never raises: the call
\* returns, the malformed geometry is not the source of the path, and a
\* warning is recorded
C14_BadGeometryFallsBackWithWarning ==
    StrokeReturned =>
        /\ ~result.raised
        /\ (MalformedNetwork(call.node.vectorNetwork) =>
               result.source # "network" /\ result.warnings # <<>>)
        /\ (MalformedBlob(call.node.vectorNetworkBlob) =>
               result.source # "blob" /\ result.warnings # <<>>)

\* what does hold: the call raises exactly for a missing endpoint, and it
\* never records a warning
RaisesForMissingEndpointOnly ==
    StrokeReturned =>
        /\ result.warnings = <<>>
        /\ result.raised <=>
              (/\ ~call.node.vectorNetwork.none
               /\ Len(call.node.vectorNetwork.vertices) > 0
               /\ \E i \in 1..Len(call.node.vectorNetwork.segments) :
                      call.node.vectorNetwork.segments[i].missing)

WithinTolerance(p, normalizedSize) == ~OutsideTolerance(p, normalizedSize)

\* the network, structured or blob, that the centerline was made from
AcceptedVertices ==
    IF result.source = "network" THEN call.node.vectorNetwork.vertices
    ELSE FirstOf(call.node.vectorNetworkBlob.vertices,
                 call.node.vectorNetworkBlob.vertexCount)

AcceptedSegmentCount ==
    IF result.source = "network" THEN Len(call.node.vectorNetwork.segments)
    ELSE call.node.vectorNetworkBlob.segmentCount

AcceptedVertexCount ==
    IF result.source = "network" THEN Len(call.node.vectorNetwork.vertices)
    ELSE call.node.vectorNetworkBlob.vertexCount

NetworkAccepted == StrokeReturned /\ result.source \in {"network", "blob"}

\* C15: the end points and control points of an accepted vector-network path
\* lie within [-2, normalizedSize + 2] on each axis, and a network with a
\* vertex outside that range or with more than 1000 vertices or segments is
\* not accepted
C15_AcceptedPathWithinTolerance ==
    NetworkAccepted =>
        /\ AcceptedVertexCount <= CountCeiling
        /\ AcceptedSegmentCount <= CountCeiling
        /\ ~call.node.normalizedSize.none =>
              /\ \A i \in 1..Len(AcceptedVertices) :
                     WithinTolerance(AcceptedVertices[i], call.node.normalizedSize)
              /\ \A i \in 1..Len(result.centerline) :
                     \A p \in PointsOfCommand(result.centerline[i]) :
                         WithinTolerance(p, call.node.normalizedSize)

\* what does hold: the vertices of an accepted network are within the
\* tolerance when the node has a normalizedSize, and an accepted blob is
\* within the ceiling
AcceptedVerticesWithinTolerance ==
    NetworkAccepted =>
        /\ (result.source = "blob" =>
               AcceptedVertexCount <= CountCeiling
               /\ AcceptedSegmentCount <= CountCeiling)
        /\ ~call.node.normalizedSize.none =>
              \A i \in 1..Len(AcceptedVertices) :
                  WithinTolerance(AcceptedVertices[i], call.node.normalizedSize)


(***************************************************************************)
(* The .fig archive (src/parser/fig-reader.ts): parseFigArchive and        *)
(* listFigContents on one ZIP file                                         *)
(***************************************************************************)

MaxEntries == 2

\* the compression methods of decompressData: stored, deflate; 12 (bzip2) is
\* one of the methods it does not support
Stored == 0
Deflate == 8
Bzip2 == 12

\* the bytes of an entry, by what the code asks of them: their length and
\* whether JSON.parse accepts their text
EntryData == {"empty", "json", "bytes"}

\* data.length
ByteLength(data) == IF data = "empty" THEN 0 ELSE 1

\* JSON.parse(new TextDecoder().decode(data)) returns
ParsesAsJson(data) == data = "json"

\* CentralDirEntry and the bytes stored for it; the sizes and offsets of the
\* entries are those of a well-formed ZIP file
CentralDirEntry(filename, compressionMethod, data) ==
    [filename |-> filename, compressionMethod |-> compressionMethod,
     data |-> data]

\* entry.filename.endsWith("/")
IsDirectoryName(filename) == filename \in {"images/"}

\* filename.startsWith("images/")
IsImageName(filename) == filename \in {"images/", "images/ab", "images/AB"}

\* filename.slice(7)
ImageNameOf(filename) ==
    CASE filename = "images/ab" -> "ab"
      [] filename = "images/AB" -> "AB"
      [] filename = "images/" -> ""

\* imageHash.toLowerCase()
toLowerCase(hash) ==
    CASE hash \in {"ab", "AB", "Ab"} -> "ab"
      [] hash = "cd" -> "cd"
      [] hash = "" -> ""

\* parseCentralDirectory(data) of a file whose central directory is intact
parseCentralDirectory(archive) == archive.entries

\* decompressData(compressedData, compressionMethod): does it throw
Unsupported(compressionMethod) == compressionMethod \notin {Stored, Deflate}

\* new Map(): no key
EmptyMap == [k \in {} |-> "empty"]

Failure(error) ==
    [raised |-> TRUE, error |-> error, files |-> EmptyMap, images |-> EmptyMap,
     names |-> <<>>, meta |-> "none", console |-> <<>>]

\* lines 186-196: the loop over the entries stops at the first entry that is
\* not a directory and cannot be decompressed; files.set(entry.filename, ...)
\* lets a later entry replace an earlier one of the same name
RECURSIVE extractInto(_, _)
extractInto(files, entries) ==
    IF entries = <<>> THEN [raised |-> FALSE, files |-> files]
    ELSE IF IsDirectoryName(Head(entries).filename)
    THEN extractInto(files, Tail(entries))
    ELSE IF Unsupported(Head(entries).compressionMethod)
    THEN [raised |-> TRUE, files |-> EmptyMap]
    ELSE extractInto((Head(entries).filename :> Head(entries).data) @@ files,
                     Tail(entries))

extractFiles(entries) == extractInto(EmptyMap, entries)

\* lines 204-213: meta stays {} without a meta.json entry and when JSON.parse
\* throws
parseMeta(files) ==
    IF "meta.json" \notin DOMAIN files THEN "empty"
    ELSE IF ParsesAsJson(files["meta.json"]) THEN "parsed"
    ELSE "empty"

\* a catch block that stays silent
silentCatch(files) == <<>>

\* line 211: console.warn in the catch block
metaWarnings(files) ==
    IF "meta.json" \in DOMAIN files /\ ~ParsesAsJson(files["meta.json"])
    THEN <<"Failed to parse meta.json">>
    ELSE <<>>

\* lines 218-225: images.set(filename.slice(7), fileData)
imagesOf(files) ==
    [h \in {ImageNameOf(f) : f \in {g \in DOMAIN files : IsImageName(g)}} |->
        files[CHOOSE f \in DOMAIN files : IsImageName(f) /\ ImageNameOf(f) = h]]

\* parseFigArchive(data): the result, or the error it throws
parseFigArchive(archive) ==
    IF ~archive.startsWithPK
    THEN Failure("Invalid .fig file: not a ZIP archive")
    ELSE IF extractFiles(parseCentralDirectory(archive)).raised
    THEN Failure("Unsupported compression method")
    ELSE IF "canvas.fig" \notin DOMAIN extractFiles(parseCentralDirectory(archive)).files
    THEN Failure("Invalid .fig file: missing canvas.fig")
    ELSE [raised |-> FALSE, error |-> "",
          files |-> extractFiles(parseCentralDirectory(archive)).files,
          images |-> imagesOf(extractFiles(parseCentralDirectory(archive)).files),
          names |-> <<>>,
          meta |-> parseMeta(extractFiles(parseCentralDirectory(archive)).files),
          console |-> metaWarnings(extractFiles(parseCentralDirectory(archive)).files)]

\* listFigContents(filePath): entries.map((e) => e.filename)
listFigContents(archive) ==
    [raised |-> FALSE, error |-> "", files |-> EmptyMap, images |-> EmptyMap,
     names |-> [i \in 1..Len(parseCentralDirectory(archive)) |->
                   parseCentralDirectory(archive)[i].filename],
     meta |-> "none", console |-> <<>>]

\* a.hash.localeCompare(b.hash) on the hashes of the model, ascending
HashOrder == <<"ab", "AB">>

\* case "list_images" (src/mcp/server.ts) on a document without image
\* references: one item for each key of the image map, sorted by hash
imagesList(images) ==
    LET listed == SelectSeq(HashOrder, LAMBDA h : h \in DOMAIN images)
    IN  [i \in 1..Len(listed) |->
            [hash |-> listed[i], byteLength |-> ByteLength(images[listed[i]])]]

list_images(images) ==
    [isError |-> FALSE, count |-> Len(imagesList(images)),
     images |-> imagesList(images)]

\* images.get(normalized) ?? images.get(imageHash)
lookupImage(images, imageHash) ==
    IF toLowerCase(imageHash) \in DOMAIN images
    THEN [found |-> TRUE, key |-> toLowerCase(imageHash)]
    ELSE IF imageHash \in DOMAIN images
    THEN [found |-> TRUE, key |-> imageHash]
    ELSE [found |-> FALSE, key |-> ""]

\* case "get_image": the url is the path part of httpUrl
get_image(images, imageHash) ==
    IF ~lookupImage(images, imageHash).found
    THEN [isError |-> TRUE, url |-> "", hash |-> "", size |-> 0, key |-> ""]
    ELSE [isError |-> FALSE,
          url |-> <<"image", toLowerCase(imageHash)>>,
          hash |-> toLowerCase(imageHash),
          size |-> ByteLength(images[lookupImage(images, imageHash).key]),
          key |-> lookupImage(images, imageHash).key]

Filenames == {"canvas.fig", "meta.json", "hi", "images/", "images/ab", "images/AB"}

ArchiveEntries ==
    {CentralDirEntry(f, m, d) :
        f \in Filenames, m \in {Stored, Deflate, Bzip2}, d \in EntryData}

\* well-formed ZIP files: they start with the bytes "PK"
Archives ==
    {[startsWithPK |-> TRUE, entries |-> e] :
        e \in SeqsUpTo(ArchiveEntries, MaxEntries)}

\* the imageHash arguments of get_image
ImageHashes == {"ab", "AB", "Ab", "cd"}

NotRead ==
    [raised |-> FALSE, error |-> "", files |-> EmptyMap, images |-> EmptyMap,
     names |-> <<>>, meta |-> "none", console |-> <<>>]

NotCalled == [isError |-> FALSE, called |-> FALSE]

ArchiveInit ==
    /\ TreeIdle
    /\ ServerIdle
    /\ cloneOf = 0
    /\ overrideMap = <<>>
    /\ cloneStack = <<>>
    /\ cloneSymbols = {}
    /\ cloneCount = 0
    /\ cloneCuts = 0
    /\ clonePc = "idle"
    /\ symbolID = <<>>
    /\ rawOverrides = <<>>
    /\ rawAssignments = <<>>
    /\ last = [op |-> "none"]
    /\ call \in {[fn |-> "archive", data |-> a, imageHash |-> ""] : a \in Archives}
    /\ result = [fn |-> "archive", readDone |-> FALSE, listDone |-> FALSE,
                 read |-> NotRead, list |-> NotRead,
                 listed |-> NotCalled, got |-> NotCalled]

\* readFigFile(filePath): parseFigArchive on the bytes of the file
ReadFigFile ==
    /\ call.fn = "archive"
    /\ ~result.readDone
    /\ result' = [result EXCEPT !.readDone = TRUE,
                                !.read = parseFigArchive(call.data)]
    /\ UNCHANGED <<call, graphVars, treeVars, cloneVars, serverVars>>

ListFigContents ==
    /\ call.fn = "archive"
    /\ ~result.listDone
    /\ result' = [result EXCEPT !.listDone = TRUE,
                                !.list = listFigContents(call.data)]
    /\ UNCHANGED <<call, graphVars, treeVars, cloneVars, serverVars>>

\* parseCanvasFig(archive.canvasFig) returns: the bytes start with the
\* "fig-kiwi" magic and are those of a document (src/parser/kiwi-parser.ts)
hasFigKiwiMagic(data) == data = "bytes"

\* parseFigFile(filePath) has returned
FileParsed ==
    /\ result.readDone
    /\ ~result.read.raised
    /\ hasFigKiwiMagic(result.read.files["canvas.fig"])

\* the list_images tool on a file that getOrParseFigFile has parsed
ListImages ==
    /\ call.fn = "archive"
    /\ FileParsed
    /\ ~result.listed.called
    /\ result' = [result EXCEPT
                     !.listed = [called |-> TRUE] @@ list_images(result.read.images)]
    /\ UNCHANGED <<call, graphVars, treeVars, cloneVars, serverVars>>

\* the get_image tool on a file that getOrParseFigFile has parsed
GetImage ==
    /\ call.fn = "archive"
    /\ FileParsed
    /\ ~result.got.called
    /\ \E imageHash \in ImageHashes :
          /\ call' = [call EXCEPT !.imageHash = imageHash]
          /\ result' = [result EXCEPT
                           !.got = [called |-> TRUE] @@
                                   get_image(result.read.images, imageHash)]
    /\ UNCHANGED <<graphVars, treeVars, cloneVars, serverVars>>

ArchiveNext ==
    \/ ReadFigFile
    \/ ListFigContents
    \/ ListImages
    \/ GetImage

SpecArchive == ArchiveInit /\ [][ArchiveNext]_vars

(***************************************************************************)
(* Claims about the archive                                                *)
(***************************************************************************)

HasNoCanvasFig(archive) ==
    \A i \in 1..Len(archive.entries) : archive.entries[i].filename # "canvas.fig"

ReadAndListed ==
    /\ call.fn = "archive"
    /\ result.readDone
    /\ result.listDone

\* C20: reading an archive without a canvas.fig entry fails with the
\* missing-entry error, whatever its other entries, and listing the same
\* archive returns its entry names
C20_MissingCanvasIsMissingEntry ==
    (ReadAndListed /\ HasNoCanvasFig(call.data)) =>
        /\ result.read.raised
        /\ result.read.error = "Invalid .fig file: missing canvas.fig"
        /\ ~result.list.raised
        /\ result.list.names = [i \in 1..Len(call.data.entries) |->
                                   call.data.entries[i].filename]

\* what does hold: the read fails with some error and the listing succeeds
ReadWithoutCanvasFails ==
    (ReadAndListed /\ HasNoCanvasFig(call.data)) =>
        /\ result.read.raised
        /\ ~result.list.raised
        /\ result.list.names = [i \in 1..Len(call.data.entries) |->
                                   call.data.entries[i].filename]


(***************************************************************************)
(* Rounded rectangles (src/renderer/render-screen.ts): renderRectangle on  *)
(* a node with a corner radius and renderInstanceContent on the elements   *)
(* extracted from an instance's overrides                                  *)
(***************************************************************************)

MaxElements == 1

\* InstanceVisualElement: {type, size?, fillColor?, cornerRadius?}; size
\* none for undefined, cornerRadius.kind "undefined" for undefined
VisualElement(fillColor, size, cornerRadius) ==
    [type |-> "rectangle", fillColor |-> fillColor, size |-> size,
     cornerRadius |-> cornerRadius]

\* lines 535-553: one text element for each text item, 20 apart; the items
\* carry no fontSize, so fontSize is 14
RECURSIVE instanceTexts(_, _, _)
instanceTexts(textContent, pos, yOffset) ==
    IF textContent = <<>> THEN <<>>
    ELSE <<[tag |-> "text", x |-> pos.x, y |-> pos.y + yOffset + 14,
            text |-> Head(textContent)]>>
         \o instanceTexts(Tail(textContent), pos, yOffset + 20)

\* lines 564 and 580-583: radius = el.cornerRadius ?? 0; rx and ry are
\* printed when radius > 0
elementRadius(el) ==
    IF el.cornerRadius.kind = "number" /\ el.cornerRadius.value > 0
    THEN Radius(el.cornerRadius.value, 1)
    ELSE NoRadius

\* lines 558-588: one rect for each rectangle element that has a fill;
\* elSize = el.size ?? {x: width, y: 30}
RECURSIVE instanceRects(_, _, _)
instanceRects(elements, pos, width) ==
    IF elements = <<>> THEN <<>>
    ELSE (IF Head(elements).type = "rectangle" /\ Head(elements).fillColor # ""
          THEN <<[tag |-> "rect", x |-> pos.x, y |-> pos.y,
                  width |-> IF Head(elements).size.none THEN width
                            ELSE Head(elements).size.x,
                  height |-> IF Head(elements).size.none THEN 30
                             ELSE Head(elements).size.y,
                  fill |-> Head(elements).fillColor,
                  rx |-> elementRadius(Head(elements)),
                  ry |-> elementRadius(Head(elements))]>>
          ELSE <<>>)
         \o instanceRects(Tail(elements), pos, width)

\* renderInstanceContent(resolved, transform, options, output): what it
\* pushes to the output; it returns true when it pushed anything
renderInstanceContent(resolved, transform, options) ==
    IF resolved.instance.width = 0 \/ resolved.instance.height = 0 THEN <<>>
    ELSE (IF options.includeText
          THEN instanceTexts(resolved.textContent,
                             transformPoint(0, 0, transform), 0)
          ELSE <<>>)
         \o (IF options.includeFills
             THEN instanceRects(resolved.elements,
                                transformPoint(0, 0, transform),
                                resolved.instance.width)
             ELSE <<>>)

\* ---- the rectangles that are rendered
CornerRadii ==
    {NoCornerRadius, PerCornerRadius} \cup
    {NumberCornerRadius(r) : r \in {0, 4, 5, 20, 100}}

RectangleNodes ==
    {[width |-> w, height |-> h, fill |-> f, cornerRadius |-> r] :
        w \in {10, 40, 100}, h \in {10, 40}, f \in {"", "red"}, r \in CornerRadii}

\* a translation and a quarter turn
QuarterTurn == [a |-> 0, b |-> 1, c |-> -1, d |-> 0, e |-> 100, f |-> 0]
RectangleTransforms ==
    {[IDENTITY_TRANSFORM EXCEPT !.e = 5, !.f = 5], QuarterTurn}

VisualElements ==
    {VisualElement(f, z, r) :
        f \in {"", "red"}, z \in {NoXY, SomeXY(100, 40)},
        r \in {NoCornerRadius} \cup {NumberCornerRadius(v) : v \in {0, 20, 100}}}

ResolvedContents ==
    {[instance |-> [width |-> w, height |-> 40], textContent |-> t,
      elements |-> e] :
        w \in {0, 100}, t \in {<<>>, <<"Label">>},
        e \in SeqsUpTo(VisualElements, MaxElements)}

ContentOptions ==
    {[includeText |-> t, includeFills |-> f] : t \in BOOLEAN, f \in BOOLEAN}

RectInit ==
    /\ TreeIdle
    /\ ServerIdle
    /\ cloneOf = 0
    /\ overrideMap = <<>>
    /\ cloneStack = <<>>
    /\ cloneSymbols = {}
    /\ cloneCount = 0
    /\ cloneCuts = 0
    /\ clonePc = "idle"
    /\ symbolID = <<>>
    /\ rawOverrides = <<>>
    /\ rawAssignments = <<>>
    /\ last = [op |-> "none"]
    /\ call \in {[fn |-> "renderRectangle", node |-> n, transform |-> t] :
                    n \in RectangleNodes, t \in RectangleTransforms}
                \cup {[fn |-> "renderInstanceContent", resolved |-> c,
                       transform |-> t, options |-> o] :
                        c \in ResolvedContents, t \in RectangleTransforms,
                        o \in ContentOptions}
    /\ result = [fn |-> "none"]

RenderRectangle ==
    /\ call.fn = "renderRectangle"
    /\ result.fn = "none"
    /\ result' = [fn |-> "renderRectangle",
                  rendered |-> renderRectangle(call.node, call.transform) # <<>>,
                  output |-> renderRectangle(call.node, call.transform)]
    /\ UNCHANGED <<call, graphVars, treeVars, cloneVars, serverVars>>

RenderInstanceContent ==
    /\ call.fn = "renderInstanceContent"
    /\ result.fn = "none"
    /\ result' = [fn |-> "renderInstanceContent",
                  rendered |-> renderInstanceContent(call.resolved, call.transform,
                                                     call.options) # <<>>,
                  output |-> renderInstanceContent(call.resolved, call.transform,
                                                   call.options)]
    /\ UNCHANGED <<call, graphVars, treeVars, cloneVars, serverVars>>

RectNext ==
    \/ RenderRectangle
    \/ RenderInstanceContent

SpecRect == RectInit /\ [][RectNext]_vars

(***************************************************************************)
(* Claims about the corner radius                                          *)
(***************************************************************************)

\* rx = ry, at most min(width, height) / 2
ClampedRect(e) ==
    /\ e.rx = e.ry
    /\ e.rx.num * 2 <= e.width * e.rx.den
    /\ e.rx.num * 2 <= e.height * e.rx.den

RoundedRects ==
    IF result.fn \in {"renderRectangle", "renderInstanceContent"}
    THEN {result.output[i] :
            i \in {j \in 1..Len(result.output) :
                     result.output[j].tag = "rect" /\ ~result.output[j].rx.none}}
    ELSE {}

\* C19: every rect emitted with a corner radius has rx = ry at most
\* min(width, height) / 2
C19_RadiusClamped == \A e \in RoundedRects : ClampedRect(e)

\* what does hold: renderRectangle clamps, and a radius at or above the limit
\* gives exactly half the shorter side
RectangleNodeRadiusClamped ==
    result.fn = "renderRectangle" =>
        \A e \in RoundedRects :
            /\ ClampedRect(e)
            /\ (2 * call.node.cornerRadius.value >= e.width
                \/ 2 * call.node.cornerRadius.value >= e.height)
               => (e.rx.num = e.width \/ e.rx.num = e.height)


(***************************************************************************)
(* Render options: the render_screen handler (src/mcp/server.ts) and the   *)
(* option merge of renderScreen (src/renderer/render-screen.ts)            *)
(***************************************************************************)

\* a value of an options object; "absent": the object has no such key
Absent == [type |-> "absent", num |-> 0, bool |-> FALSE, str |-> ""]
Undefined == [type |-> "undefined", num |-> 0, bool |-> FALSE, str |-> ""]
NumberValue(n) == [type |-> "number", num |-> n, bool |-> FALSE, str |-> ""]
BooleanValue(b) == [type |-> "boolean", num |-> 0, bool |-> b, str |-> ""]
StringValue(t) == [type |-> "string", num |-> 0, bool |-> FALSE, str |-> t]

\* the keys of RenderScreenOptions that the renderer reads
RenderScreenKeys ==
    {"maxDepth", "includeText", "includeFills", "includeStrokes",
     "includeImages", "includeShadows", "background", "scale"}

\* keys that are no option of the renderer
UnknownKeys == {"zoom", "depth"}

OptionKeys == RenderScreenKeys \cup UnknownKeys

\* DEFAULT_RENDER_OPTIONS
DEFAULT_RENDER_OPTIONS ==
    [k \in OptionKeys |->
        CASE k = "maxDepth" -> NumberValue(200)
          [] k = "includeText" -> BooleanValue(TRUE)
          [] k = "includeFills" -> BooleanValue(TRUE)
          [] k = "includeStrokes" -> BooleanValue(TRUE)
          [] k = "includeImages" -> BooleanValue(FALSE)
          [] k = "includeShadows" -> BooleanValue(TRUE)
          [] k = "background" -> StringValue("")
          [] k = "scale" -> NumberValue(1)
          [] OTHER -> Absent]

\* const resolved = { ...DEFAULT_RENDER_OPTIONS, ...options }
resolvedOptions(options) ==
    [k \in OptionKeys |->
        IF options[k].type # "absent" THEN options[k]
        ELSE DEFAULT_RENDER_OPTIONS[k]]

\* the typeof test of the handler for each key it forwards
ForwardedType(k) ==
    CASE k \in {"maxDepth", "scale"} -> "number"
      [] k = "background" -> "string"
      [] OTHER -> "boolean"

ForwardedKeys ==
    {"maxDepth", "includeText", "includeFills", "includeStrokes",
     "includeImages", "background", "scale"}

\* server.ts lines 1608-1619: the options object the handler builds; every
\* forwarded key is present, undefined unless the argument has the type
forwardedOptions(options) ==
    [k \in OptionKeys |->
        IF k \notin ForwardedKeys THEN Absent
        ELSE IF options[k].type = ForwardedType(k) THEN options[k]
        ELSE Undefined]

\* the truth value of an option in `if (options.includeText)`
Truthy(v) ==
    CASE v.type = "boolean" -> v.bool
      [] v.type = "number" -> v.num # 0
      [] v.type = "string" -> v.str # ""
      [] OTHER -> FALSE

\* depth > options.maxDepth is false for an undefined maxDepth: no node of
\* the graph is deeper than the number of its nodes
DepthLimit(v) == IF v.type = "number" THEN v.num ELSE Cardinality(GNodes)

\* the resolved options as renderNode reads them; the handler passes neither
\* nodeIndex nor rawNodeIndex
ReadOptions(resolved) ==
    [maxDepth |-> DepthLimit(resolved["maxDepth"]),
     includeText |-> Truthy(resolved["includeText"]),
     includeFills |-> Truthy(resolved["includeFills"]),
     includeStrokes |-> Truthy(resolved["includeStrokes"]),
     includeImages |-> Truthy(resolved["includeImages"]),
     includeShadows |-> Truthy(resolved["includeShadows"]),
     hasNodeIndex |-> FALSE, hasRawNodeIndex |-> FALSE]

\* the options objects of the callers
OptionObjects ==
    {[k \in OptionKeys |->
        CASE k = "maxDepth" -> d
          [] k = "includeText" -> t
          [] k = "includeFills" -> f
          [] k = "zoom" -> z
          [] k = "depth" -> u
          [] OTHER -> Absent] :
        d \in {Absent, NumberValue(1), StringValue("1")},
        t \in {Absent, BooleanValue(TRUE), BooleanValue(FALSE)},
        f \in {Absent, BooleanValue(TRUE)},
        z \in {Absent, NumberValue(2)},
        u \in {Absent, NumberValue(1)}}

\* an options object of the declared types (a TypeScript caller)
WellTyped(options) ==
    \A k \in RenderScreenKeys :
        options[k].type \in {"absent", ForwardedType(k)}

\* nodeIdIndex.get(normalizedId): node 7, or NoNode for an id of no node
RequestedNodes == {7, NoNode}

OptionsInit ==
    /\ TreeIdle
    /\ ServerIdle
    /\ cloneOf = 0
    /\ overrideMap = <<>>
    /\ cloneStack = <<>>
    /\ cloneSymbols = {}
    /\ cloneCount = 0
    /\ cloneCuts = 0
    /\ clonePc = "idle"
    /\ symbolID = InitialSymbolID
    /\ rawOverrides = <<>>
    /\ rawAssignments = <<>>
    /\ last = [op |-> "none"]
    /\ call \in {[fn |-> "render", node |-> n, options |-> o] :
                    n \in RequestedNodes, o \in OptionObjects}
    /\ result = [fn |-> "none"]

\* the render_screen tool of the server: node lookup, renderScreen with the
\* forwarded options, the image of the svg
HandleRenderScreen ==
    /\ call.fn = "render"
    /\ result.fn = "none"
    /\ IF call.node = NoNode
       THEN /\ result' = [fn |-> "render_screen", isError |-> TRUE,
                          resolved |-> DEFAULT_RENDER_OPTIONS]
            /\ UNCHANGED <<symbolID, last>>
       ELSE LET resolved == resolvedOptions(forwardedOptions(call.options))
                r == renderScreen(symbolID, call.node, ReadOptions(resolved))
            IN  /\ result' = [fn |-> "render_screen", isError |-> FALSE,
                              resolved |-> resolved]
                /\ symbolID' = r.heap
                /\ last' = [op |-> "render", node |-> call.node,
                            options |-> ReadOptions(resolved),
                            svg |-> r.svg, width |-> r.width,
                            height |-> r.height, warnings |-> r.warnings]
    /\ UNCHANGED <<call, rawOverrides, rawAssignments, treeVars, cloneVars, serverVars>>

\* renderScreen(node, images, blobs, options) called by a TypeScript caller
\* that holds the node
CallRenderScreen ==
    /\ call.fn = "render"
    /\ result.fn = "none"
    /\ call.node # NoNode
    /\ WellTyped(call.options)
    /\ LET resolved == resolvedOptions(call.options)
           r == renderScreen(symbolID, call.node, ReadOptions(resolved))
       IN  /\ result' = [fn |-> "renderScreen", isError |-> FALSE,
                         resolved |-> resolved]
           /\ symbolID' = r.heap
           /\ last' = [op |-> "render", node |-> call.node,
                       options |-> ReadOptions(resolved),
                       svg |-> r.svg, width |-> r.width,
                       height |-> r.height, warnings |-> r.warnings]
    /\ UNCHANGED <<call, rawOverrides, rawAssignments, treeVars, cloneVars, serverVars>>

OptionsNext ==
    \/ HandleRenderScreen
    \/ CallRenderScreen

SpecOptions == OptionsInit /\ [][OptionsNext]_vars

(***************************************************************************)
(* Claims about the options                                                *)
(***************************************************************************)

HasUnknownKey(options) == \E k \in UnknownKeys : options[k].type # "absent"

WithoutUnknownKeys(options) ==
    [k \in OptionKeys |-> IF k \in UnknownKeys THEN Absent ELSE options[k]]

RenderReturned == result.fn \in {"render_screen", "renderScreen"}

\* C17: a render call whose options hold a key that is no option of the
\* renderer is rejected with an error
C17_UnknownKeysRejected ==
    (RenderReturned /\ HasUnknownKey(call.options)) => result.isError

\* what does hold: an unknown key changes nothing; the call renders as it
\* does without the key
UnknownKeysIgnored ==
    (RenderReturned /\ ~result.isError) =>
        /\ last.op = "render"
        /\ last.options =
             ReadOptions(resolvedOptions(
                IF result.fn = "render_screen"
                THEN forwardedOptions(WithoutUnknownKeys(call.options))
                ELSE WithoutUnknownKeys(call.options)))
        /\ \A k \in RenderScreenKeys :
               result.resolved[k] =
                 resolvedOptions(
                    IF result.fn = "render_screen"
                    THEN forwardedOptions(WithoutUnknownKeys(call.options))
                    ELSE WithoutUnknownKeys(call.options))[k]

(***************************************************************************)
(* Claims about meta.json and the images of the archive                    *)
(***************************************************************************)

\* every entry can be extracted and one of them is canvas.fig
Extractable(archive) ==
    /\ \E i \in 1..Len(archive.entries) : archive.entries[i].filename = "canvas.fig"
    /\ \A i \in 1..Len(archive.entries) :
          \/ IsDirectoryName(archive.entries[i].filename)
          \/ ~Unsupported(archive.entries[i].compressionMethod)

\* the archive has a meta.json entry and its bytes are not JSON
MalformedMeta(archive) ==
    /\ \E i \in 1..Len(archive.entries) : archive.entries[i].filename = "meta.json"
    /\ \A i \in 1..Len(archive.entries) :
          archive.entries[i].filename = "meta.json" =>
              ~ParsesAsJson(archive.entries[i].data)

ReadReturned ==
    /\ call.fn = "archive"
    /\ result.readDone

\* C21: reading an archive whose meta.json is present but malformed
\* succeeds, with an empty metadata map and a recorded warning
C21_MalformedMetaIsEmptyWithWarning ==
    (ReadReturned /\ Extractable(call.data) /\ MalformedMeta(call.data)) =>
        /\ ~result.read.raised
        /\ result.read.meta = "empty"
        /\ result.read.console = <<"Failed to parse meta.json">>

C21_Witness ==
    /\ ReadReturned
    /\ Extractable(call.data)
    /\ MalformedMeta(call.data)
    /\ ~result.read.raised
    /\ result.read.console # <<>>

\* the entries of the archive that are image files
ImageEntries(archive) ==
    {i \in 1..Len(archive.entries) :
        /\ IsImageName(archive.entries[i].filename)
        /\ ~IsDirectoryName(archive.entries[i].filename)}

\* the image entries that a hash names, whatever its letter-casing
EntriesNamed(archive, imageHash) ==
    {i \in ImageEntries(archive) :
        toLowerCase(ImageNameOf(archive.entries[i].filename)) = toLowerCase(imageHash)}

GetImageReturned ==
    /\ call.fn = "archive"
    /\ result.readDone
    /\ ~result.read.raised
    /\ result.got.called

\* C22: every entry images/<name> is in the image map under the lower-cased
\* name, and get_image with any letter-casing of that hash returns the bytes
\* of such an entry
C22_ImagesFoundInAnyCasing ==
    /\ (ReadReturned /\ ~result.read.raised) =>
          \A i \in ImageEntries(call.data) :
              toLowerCase(ImageNameOf(call.data.entries[i].filename))
                  \in DOMAIN result.read.images
    /\ (GetImageReturned /\ EntriesNamed(call.data, call.imageHash) # {}) =>
          /\ ~result.got.isError
          /\ \E i \in EntriesNamed(call.data, call.imageHash) :
                result.got.size = ByteLength(call.data.entries[i].data)

\* what does hold: every image entry is in the map under its name as written,
\* and get_image finds an entry whose name is the hash as given or the
\* lower-cased hash
ImagesFoundUnderWrittenName ==
    /\ (ReadReturned /\ ~result.read.raised) =>
          \A i \in ImageEntries(call.data) :
              ImageNameOf(call.data.entries[i].filename) \in DOMAIN result.read.images
    /\ GetImageReturned =>
          (~result.got.isError <=>
              \E i \in ImageEntries(call.data) :
                  ImageNameOf(call.data.entries[i].filename)
                      \in {call.imageHash, toLowerCase(call.imageHash)})

\* the hashes that list_images has listed
ListedHashes ==
    {result.listed.images[i].hash : i \in 1..Len(result.listed.images)}

ListedAndGot ==
    /\ GetImageReturned
    /\ result.listed.called
    /\ call.imageHash \in ListedHashes

\* C23: list_images reports a count equal to the number of images it lists,
\* and get_image with a listed hash succeeds with a url and a size above zero
C23_ListedImagesCanBeGot ==
    /\ (call.fn = "archive" /\ result.listed.called) =>
          result.listed.count = Len(result.listed.images)
    /\ ListedAndGot =>
          /\ ~result.got.isError
          /\ result.got.url = <<"image", toLowerCase(call.imageHash)>>
          /\ result.got.size > 0

\* what does hold: the count is the number of keys of the image map, and
\* get_image with a listed hash succeeds with the size of the entry it found
ListedImagesAreFound ==
    /\ (call.fn = "archive" /\ result.listed.called) =>
          /\ result.listed.count = Len(result.listed.images)
          /\ result.listed.count = Cardinality(DOMAIN result.read.images)
    /\ ListedAndGot =>
          /\ ~result.got.isError
          /\ result.got.url = <<"image", toLowerCase(call.imageHash)>>
          /\ result.got.size = ByteLength(result.read.images[result.got.key])

(***************************************************************************)
(* The find_nodes tool (src/mcp/server.ts) with findNodesByType and        *)
(* findNodesByName, on one document                                        *)
(***************************************************************************)

MaxChildren == 2

\* a FigNode of the document; id tells the node objects apart
FigNode(id, type, name, nodeChildren) ==
    [id |-> id, type |-> type, name |-> name, children |-> nodeChildren]

\* n.name.toLowerCase().includes(name.toLowerCase()) on the names and the
\* search strings of the model
nameIncludes(nodeName, name) ==
    CASE name = "button" -> nodeName = "Button"
      [] name = "CARD" -> nodeName = "Card"
      [] name = "a" -> nodeName = "Card"
      [] name = "x" -> FALSE
      [] name = "" -> TRUE

\* findNodesByType(node, type): the walk over a list of siblings, in
\* document order
RECURSIVE walkByType(_, _)
walkByType(nodes, type) ==
    IF nodes = <<>> THEN <<>>
    ELSE (IF Head(nodes).type = type THEN <<Head(nodes).id>> ELSE <<>>)
         \o walkByType(Head(nodes).children, type)
         \o walkByType(Tail(nodes), type)

findNodesByType(node, type) == walkByType(<<node>>, type)

\* findNodesByName(node, name)
RECURSIVE walkByName(_, _)
walkByName(nodes, name) ==
    IF nodes = <<>> THEN <<>>
    ELSE (IF nameIncludes(Head(nodes).name, name) THEN <<Head(nodes).id>> ELSE <<>>)
         \o walkByName(Head(nodes).children, name)
         \o walkByName(Tail(nodes), name)

findNodesByName(node, name) == walkByName(<<node>>, name)

InSeq(x, s) == \E i \in 1..Len(s) : s[i] = x

\* results.filter((n) => nameSet.has(n))
filterByNameSet(results, byName) == SelectSeq(results, LAMBDA n : InSeq(n, byName))

\* the intersection of the two searches, whatever their sizes
intersectAlways(document, type, byName) ==
    filterByNameSet(findNodesByType(document, type), byName)

\* lines 930-939: byName is intersected with the results by type only when
\* there are results by type (type is then not "")
combineWithName(document, type, byName) ==
    IF type # "" /\ Len(findNodesByType(document, type)) > 0
    THEN filterByNameSet(findNodesByType(document, type), byName)
    ELSE byName

\* case "find_nodes": "" for a type or a name that is not given
find_nodes(document, type, name) ==
    IF name # ""
    THEN combineWithName(document, type, findNodesByName(document, name))
    ELSE IF type # "" THEN findNodesByType(document, type)
    ELSE <<>>

DocumentNodeTypes == {"FRAME", "TEXT"}
NodeNames == {"Button", "Card"}

GrandChildren(id) ==
    {<<>>} \cup {<<FigNode(id, t, n, <<>>)>> : t \in DocumentNodeTypes, n \in NodeNames}

ChildNodes(id) ==
    {FigNode(id, t, n, g) : t \in DocumentNodeTypes, n \in NodeNames, g \in GrandChildren(id + MaxChildren)}

RECURSIVE ChildLists(_)
ChildLists(k) ==
    IF k = 0 THEN {<<>>}
    ELSE {Append(s, c) : s \in ChildLists(k - 1), c \in ChildNodes(k)}

Documents ==
    {FigNode(0, "DOCUMENT", "Document", kids) :
        kids \in UNION {ChildLists(k) : k \in 0..MaxChildren}}

SearchTypes == {"", "FRAME", "TEXT", "VECTOR"}
SearchNames == {"", "button", "CARD", "a", "x"}

FindInit ==
    /\ TreeIdle
    /\ ServerIdle
    /\ cloneOf = 0
    /\ overrideMap = <<>>
    /\ cloneStack = <<>>
    /\ cloneSymbols = {}
    /\ cloneCount = 0
    /\ cloneCuts = 0
    /\ clonePc = "idle"
    /\ symbolID = <<>>
    /\ rawOverrides = <<>>
    /\ rawAssignments = <<>>
    /\ last = [op |-> "none"]
    /\ call \in {[fn |-> "find_nodes", document |-> d, type |-> "", name |-> ""] :
                    d \in Documents}
    /\ result = [fn |-> "none"]

\* one call of the find_nodes tool on the parsed document
FindNodes ==
    /\ call.fn = "find_nodes"
    /\ result.fn = "none"
    /\ \E type \in SearchTypes, name \in SearchNames :
          /\ call' = [call EXCEPT !.type = type, !.name = name]
          /\ result' = [fn |-> "find_nodes",
                        nodes |-> find_nodes(call.document, type, name)]
    /\ UNCHANGED <<graphVars, treeVars, cloneVars, serverVars>>

FindNext == FindNodes

SpecFind == FindInit /\ [][FindNext]_vars

(***************************************************************************)
(* Claims about find_nodes                                                 *)
(***************************************************************************)

FoundWithBoth ==
    /\ call.fn = "find_nodes"
    /\ result.fn = "find_nodes"
    /\ call.type # ""
    /\ call.name # ""

FoundIds == {result.nodes[i] : i \in 1..Len(result.nodes)}

MatchingBoth ==
    {n.id : n \in {m \in NodesOf(<<call.document>>) :
                      m.type = call.type /\ nameIncludes(m.name, call.name)}}

\* C24: with both a type and a name, find_nodes returns exactly the nodes that
\* have the type and whose name contains the name, also when no node has the
\* type
C24_BothFiltersIntersect ==
    FoundWithBoth => FoundIds = MatchingBoth

\* what does hold: the intersection when some node has the type, and all the
\* nodes matching the name when none has
IntersectionWhenTypeOccurs ==
    FoundWithBoth =>
        IF \E n \in NodesOf(<<call.document>>) : n.type = call.type
        THEN FoundIds = MatchingBoth
        ELSE FoundIds = {n.id : n \in {m \in NodesOf(<<call.document>>) :
                                          nameIncludes(m.name, call.name)}}

(***************************************************************************)
(* The parse cache of the MCP server (src/mcp/server.ts): tool calls and   *)
(* HTTP image requests go through getOrParseFigFile, which awaits          *)
(* parseFigFile between its test of fileCache and its fileCache.set;       *)
(* clear_cache runs without awaiting                                       *)
(***************************************************************************)

MaxRequests == 3
MaxClears == 2

FilePaths == {"a.fig", "b.fig"}

RequestIds == 1..MaxRequests

\* fileCache.has(filePath) is false; a parse is named by the request that
\* started it
NoParse == 0

\* a request that has not arrived yet
NoRequest ==
    [pc |-> "none", kind |-> "", path |-> "", started |-> 0, parsed |-> FALSE,
     served |-> NoParse]

\* line 279: !fileCache.has(filePath)
Missing(cache, filePath) == cache[filePath] = NoParse

\* getOrParseFigFile up to its await (lines 279-280), or to its return when
\* the path is cached (line 294); started is the number of clear_cache calls
\* that have removed the path before the request
getOrParseFigFile(r, filePath, kind) ==
    /\ requests[r].pc = "none"
    /\ requests' = [requests EXCEPT ![r] =
          IF Missing(fileCache, filePath)
          THEN [pc |-> "parsing", kind |-> kind, path |-> filePath,
                started |-> clears[filePath], parsed |-> TRUE, served |-> NoParse]
          ELSE [pc |-> "done", kind |-> kind, path |-> filePath,
                started |-> clears[filePath], parsed |-> FALSE,
                served |-> fileCache[filePath]]]
    /\ UNCHANGED <<fileCache, clears>>

CacheIdle ==
    /\ httpPort = 0
    /\ httpServer = [pc |-> "none"]
    /\ processExited = FALSE
    /\ urls = {}
    /\ currentFile = ""
    /\ viewerCache = {}
    /\ viewerRequests = [pc |-> "none"]

CacheInit ==
    /\ TreeIdle
    /\ GraphIdle
    /\ CacheIdle
    /\ fileCache = [p \in FilePaths |-> NoParse]
    /\ requests = [r \in RequestIds |-> NoRequest]
    /\ clears = [p \in FilePaths |-> 0]

\* a tool call that names a file path (CallToolRequest handler)
CallTool ==
    /\ \E r \in RequestIds, filePath \in FilePaths :
          getOrParseFigFile(r, filePath, "tool")
    /\ UNCHANGED <<httpPort, httpServer, processExited, urls, currentFile,
                   viewerCache, viewerRequests>>
    /\ UNCHANGED <<graphVars, treeVars, cloneVars, callVars>>

\* GET /image/:file/:hash of the HTTP image server (src/http-server.ts)
ImageRequest ==
    /\ \E r \in RequestIds, filePath \in FilePaths :
          getOrParseFigFile(r, filePath, "http")
    /\ UNCHANGED <<httpPort, httpServer, processExited, urls, currentFile,
                   viewerCache, viewerRequests>>
    /\ UNCHANGED <<graphVars, treeVars, cloneVars, callVars>>

\* the await of parseFigFile returns (lines 280-294): the parse is stored and
\* the request is served from the cache entry just stored
ParseReturns ==
    /\ \E r \in RequestIds :
          /\ requests[r].pc = "parsing"
          /\ fileCache' = [fileCache EXCEPT ![requests[r].path] = r]
          /\ requests' = [requests EXCEPT ![r].pc = "done", ![r].served = r]
    /\ UNCHANGED <<clears, httpPort, httpServer, processExited, urls,
                   currentFile, viewerCache, viewerRequests>>
    /\ UNCHANGED <<graphVars, treeVars, cloneVars, callVars>>

ClearsSoFar(p) == clears[p]

\* case "clear_cache" with a filePath: fileCache.delete(filePath)
ClearCache ==
    /\ \E filePath \in FilePaths :
          /\ ClearsSoFar(filePath) < MaxClears
          /\ fileCache' = [fileCache EXCEPT ![filePath] = NoParse]
          /\ clears' = [clears EXCEPT ![filePath] = @ + 1]
    /\ UNCHANGED <<requests, httpPort, httpServer, processExited, urls,
                   currentFile, viewerCache, viewerRequests>>
    /\ UNCHANGED <<graphVars, treeVars, cloneVars, callVars>>

\* case "clear_cache" without a filePath: fileCache.clear()
ClearAllCache ==
    /\ \A p \in FilePaths : ClearsSoFar(p) < MaxClears
    /\ fileCache' = [p \in FilePaths |-> NoParse]
    /\ clears' = [p \in FilePaths |-> clears[p] + 1]
    /\ UNCHANGED <<requests, httpPort, httpServer, processExited, urls,
                   currentFile, viewerCache, viewerRequests>>
    /\ UNCHANGED <<graphVars, treeVars, cloneVars, callVars>>

CacheNext ==
    \/ CallTool
    \/ ImageRequest
    \/ ParseReturns
    \/ ClearCache
    \/ ClearAllCache

SpecCache == CacheInit /\ [][CacheNext]_vars

(***************************************************************************)
(* Claims about the parse cache                                            *)
(***************************************************************************)

CacheRunning == DOMAIN requests = RequestIds

\* the requests that started a parse of the path
ParsesOf(p) == {r \in RequestIds : requests[r].parsed /\ requests[r].path = p}

\* the requests for the path that have been answered
ServedFor(p) == {r \in RequestIds : requests[r].pc = "done" /\ requests[r].path = p}

\* C25: without a clear_cache, concurrent tool calls and image requests for
\* one path parse the file at most once and are all served from the same
\* parse
C25_OneParsePerPath ==
    CacheRunning =>
        \A p \in FilePaths :
            clears[p] = 0 =>
                /\ Cardinality(ParsesOf(p)) <= 1
                /\ \A r1, r2 \in ServedFor(p) :
                      requests[r1].served = requests[r2].served

\* what does hold: every answered request is served from a parse of its own
\* path, and a request that finds the path cached starts no parse
ServedFromAParseOfThePath ==
    CacheRunning =>
        \A p \in FilePaths :
            /\ \A r \in ServedFor(p) : requests[r].served \in ParsesOf(p)
            /\ fileCache[p] # NoParse => fileCache[p] \in ParsesOf(p)
            /\ \A r \in ServedFor(p) :
                  ~requests[r].parsed => requests[r].served # r

\* C26: a request that arrives after clear_cache is served from a parse that
\* started after that clear, and the cache never holds a parse that started
\* before the last clear of its path
C26_NoParseFromBeforeTheClear ==
    CacheRunning =>
        \A p \in FilePaths :
            /\ \A r \in ServedFor(p) :
                  requests[requests[r].served].started >= requests[r].started
            /\ fileCache[p] # NoParse =>
                  requests[fileCache[p]].started = clears[p]

\* what does hold: a parse that some request was served from started no later
\* than that request, and the cache holds a parse that has returned
CachedParsesHaveReturned ==
    CacheRunning =>
        \A p \in FilePaths :
            /\ \A r \in ServedFor(p) :
                  requests[requests[r].served].started <= requests[r].started
            /\ fileCache[p] # NoParse => requests[fileCache[p]].pc = "done"

(***************************************************************************)
(* The HTTP image server (src/http-server.ts): tryListen, config.httpPort  *)
(* (src/shared-config.ts) and the urls that get_image and get_thumbnail    *)
(* build from it                                                           *)
(***************************************************************************)

DEFAULT_PORT == 3847
MAX_PORT_ATTEMPTS == 10

\* no port is bound
NotListening == 0

\* err.code of the error event of server.listen
ErrorCodes == {"EADDRINUSE", "EACCES"}

\* line 90: the error handler tries the next port
TriesNextPort(code, attempt) == code = "EADDRINUSE" /\ attempt < MAX_PORT_ATTEMPTS

ListenIdle ==
    /\ fileCache = <<>>
    /\ requests = <<>>
    /\ clears = <<>>
    /\ currentFile = ""
    /\ viewerCache = {}
    /\ viewerRequests = [pc |-> "none"]

\* the module shared-config is loaded, startHttpServer has not been called
ListenInit ==
    /\ TreeIdle
    /\ GraphIdle
    /\ ListenIdle
    /\ httpPort = DEFAULT_PORT
    /\ httpServer = [pc |-> "notStarted", port |-> NotListening, attempt |-> 0,
                     listening |-> NotListening]
    /\ processExited = FALSE
    /\ urls = {}

\* startHttpServer(): tryListen(DEFAULT_PORT, 1)
StartHttpServer ==
    /\ ~processExited
    /\ httpServer.pc = "notStarted"
    /\ httpServer' = [pc |-> "trying", port |-> DEFAULT_PORT, attempt |-> 1,
                      listening |-> NotListening]
    /\ UNCHANGED <<httpPort, processExited, urls>>
    /\ UNCHANGED <<fileCache, requests, clears, currentFile, viewerCache,
                   viewerRequests>>
    /\ UNCHANGED <<graphVars, treeVars, cloneVars, callVars>>

\* the error event of server.listen (lines 89-100)
ListenError ==
    /\ ~processExited
    /\ httpServer.pc = "trying"
    /\ \E code \in ErrorCodes :
          httpServer' =
              IF TriesNextPort(code, httpServer.attempt)
              THEN [httpServer EXCEPT !.port = @ + 1, !.attempt = @ + 1]
              ELSE [httpServer EXCEPT !.pc = "gaveUp"]
    /\ UNCHANGED <<httpPort, processExited, urls>>
    /\ UNCHANGED <<fileCache, requests, clears, currentFile, viewerCache,
                   viewerRequests>>
    /\ UNCHANGED <<graphVars, treeVars, cloneVars, callVars>>

\* the listening event (lines 102-105): the callbacks of the earlier attempts
\* run first and the callback of this attempt runs last
Listening ==
    /\ ~processExited
    /\ httpServer.pc = "trying"
    /\ httpServer' = [httpServer EXCEPT !.pc = "listening",
                                        !.listening = httpServer.port]
    /\ httpPort' = httpServer.port
    /\ UNCHANGED <<processExited, urls>>
    /\ UNCHANGED <<fileCache, requests, clears, currentFile, viewerCache,
                   viewerRequests>>
    /\ UNCHANGED <<graphVars, treeVars, cloneVars, callVars>>

\* get_image or get_thumbnail answers with a url on config.httpPort
\* (src/mcp/server.ts lines 1536 and 1569); the url is kept with the port
\* the image server is listening on at that moment
SendImageUrl ==
    /\ ~processExited
    /\ httpServer.pc # "notStarted"
    /\ urls' = urls \cup {[port |-> httpPort, listening |-> httpServer.listening]}
    /\ UNCHANGED <<httpPort, httpServer, processExited>>
    /\ UNCHANGED <<fileCache, requests, clears, currentFile, viewerCache,
                   viewerRequests>>
    /\ UNCHANGED <<graphVars, treeVars, cloneVars, callVars>>

\* stdin closes (src/index.ts lines 84-86): process.exit(0)
StdinClose ==
    /\ ~processExited
    /\ httpServer.pc # "notStarted"
    /\ processExited' = TRUE
    /\ UNCHANGED <<httpPort, httpServer, urls>>
    /\ UNCHANGED <<fileCache, requests, clears, currentFile, viewerCache,
                   viewerRequests>>
    /\ UNCHANGED <<graphVars, treeVars, cloneVars, callVars>>

ListenNext ==
    \/ StartHttpServer
    \/ ListenError
    \/ Listening
    \/ SendImageUrl
    \/ StdinClose

SpecListen == ListenInit /\ [][ListenNext]_vars

(***************************************************************************)
(* Claims about the HTTP image server                                      *)
(***************************************************************************)

HttpStarted == httpServer.pc \in {"trying", "listening", "gaveUp"}

\* at most MAX_PORT_ATTEMPTS attempts, on consecutive ports from DEFAULT_PORT
AttemptsBounded ==
    HttpStarted =>
        /\ httpServer.attempt \in 1..MAX_PORT_ATTEMPTS
        /\ httpServer.port = DEFAULT_PORT + httpServer.attempt - 1

\* the step that gives up does not end the process
GivingUpDoesNotExit ==
    (HttpStarted /\ httpServer.pc # "gaveUp" /\ httpServer'.pc = "gaveUp") =>
        processExited' = processExited

\* C27: the image server makes at most 10 listen attempts on consecutive
\* ports from 3847 and does not end the process when it gives up, and the
\* port of every image url sent is the port the image server is listening on
C27_UrlPortIsListeningPort ==
    /\ [](AttemptsBounded /\ \A u \in urls : u.port = u.listening)
    /\ [][GivingUpDoesNotExit]_vars

\* what does hold: the attempts are bounded, giving up does not exit, and a
\* url sent while the image server is listening names its port
UrlPortOfARunningServer ==
    /\ [](AttemptsBounded /\
          \A u \in urls : u.listening # NotListening => u.port = u.listening)
    /\ [][GivingUpDoesNotExit]_vars

(***************************************************************************)
(* The web viewer (createServer in src/mcp/server.ts): POST /api/open,     *)
(* /api/status, /api/tree and loadFigFile                                  *)
(***************************************************************************)

\* files that parseFigFile parses
ValidFigFiles == {"a.fig", "b.fig"}

\* a path that cannot be read and a file that is not a .fig archive
InvalidFigFiles == {"missing.fig", "broken.fig"}

\* the bodies of POST /api/open: text that JSON.parse rejects, or an object
\* with a filePath
OpenBodies ==
    {[json |-> FALSE, filePath |-> ""]} \cup
    {[json |-> TRUE, filePath |-> p] : p \in ValidFigFiles \cup InvalidFigFiles}

\* no response sent yet
NoResponse == [endpoint |-> "none"]

\* loadFigFile(filePath) returns: the path is cached or parseFigFile parses it
Loads(cache, filePath) == filePath \in cache \/ filePath \in ValidFigFiles

ViewerIdle ==
    /\ fileCache = <<>>
    /\ requests = <<>>
    /\ clears = <<>>
    /\ httpPort = 0
    /\ httpServer = [pc |-> "none"]
    /\ processExited = FALSE
    /\ urls = {}

\* createServer(options): currentFile = options.figFile, nothing cached
ViewerInit ==
    /\ TreeIdle
    /\ GraphIdle
    /\ ViewerIdle
    /\ currentFile \in {""} \cup ValidFigFiles
    /\ viewerCache = {}
    /\ viewerRequests = [pc |-> "idle", before |-> "", failed |-> FALSE,
                         response |-> NoResponse]

\* POST /api/open up to its await of loadFigFile (lines 2216-2224): a body
\* that JSON.parse rejects goes to the catch block (lines 2381-2386) before
\* currentFile is assigned
PostOpen ==
    /\ viewerRequests.pc = "idle"
    /\ \E body \in OpenBodies :
          IF ~body.json
          THEN /\ viewerRequests' = [pc |-> "idle", before |-> currentFile,
                                     failed |-> TRUE,
                                     response |-> [endpoint |-> "open",
                                                   success |-> FALSE]]
               /\ UNCHANGED currentFile
          ELSE /\ currentFile' = body.filePath
               /\ viewerRequests' = [pc |-> "loading", before |-> currentFile,
                                     failed |-> FALSE, response |-> NoResponse]
    /\ UNCHANGED viewerCache
    /\ UNCHANGED <<fileCache, requests, clears, httpPort, httpServer,
                   processExited, urls>>
    /\ UNCHANGED <<graphVars, treeVars, cloneVars, callVars>>

\* the await of loadFigFile in POST /api/open returns (lines 2224-2226)
OpenLoaded ==
    /\ viewerRequests.pc = "loading"
    /\ Loads(viewerCache, currentFile)
    /\ viewerCache' = viewerCache \cup {currentFile}
    /\ viewerRequests' = [viewerRequests EXCEPT
                             !.pc = "idle",
                             !.response = [endpoint |-> "open", success |-> TRUE]]
    /\ UNCHANGED currentFile
    /\ UNCHANGED <<fileCache, requests, clears, httpPort, httpServer,
                   processExited, urls>>
    /\ UNCHANGED <<graphVars, treeVars, cloneVars, callVars>>

\* the await of loadFigFile in POST /api/open throws: the catch block sends
\* the error (lines 2381-2386)
OpenFailed ==
    /\ viewerRequests.pc = "loading"
    /\ ~Loads(viewerCache, currentFile)
    /\ viewerRequests' = [viewerRequests EXCEPT
                             !.pc = "idle", !.failed = TRUE,
                             !.response = [endpoint |-> "open", success |-> FALSE]]
    /\ UNCHANGED <<currentFile, viewerCache>>
    /\ UNCHANGED <<fileCache, requests, clears, httpPort, httpServer,
                   processExited, urls>>
    /\ UNCHANGED <<graphVars, treeVars, cloneVars, callVars>>

\* GET /api/status (lines 2208-2214)
GetStatus ==
    /\ viewerRequests.pc = "idle"
    /\ viewerRequests' = [viewerRequests EXCEPT
                             !.response = [endpoint |-> "status",
                                           ready |-> currentFile # "",
                                           file |-> currentFile]]
    /\ UNCHANGED <<currentFile, viewerCache>>
    /\ UNCHANGED <<fileCache, requests, clears, httpPort, httpServer,
                   processExited, urls>>
    /\ UNCHANGED <<graphVars, treeVars, cloneVars, callVars>>

\* GET /api/tree (lines 2229-2238): the tree of currentFile, an error when
\* there is none or when it does not load
GetTree ==
    /\ viewerRequests.pc = "idle"
    /\ viewerRequests' = [viewerRequests EXCEPT
                             !.response =
                                 [endpoint |-> "tree",
                                  served |-> IF currentFile # "" /\
                                                Loads(viewerCache, currentFile)
                                             THEN currentFile ELSE ""]]
    /\ viewerCache' = IF currentFile # "" /\ Loads(viewerCache, currentFile)
                      THEN viewerCache \cup {currentFile} ELSE viewerCache
    /\ UNCHANGED currentFile
    /\ UNCHANGED <<fileCache, requests, clears, httpPort, httpServer,
                   processExited, urls>>
    /\ UNCHANGED <<graphVars, treeVars, cloneVars, callVars>>

ViewerNext ==
    \/ PostOpen
    \/ OpenLoaded
    \/ OpenFailed
    \/ GetStatus
    \/ GetTree

SpecViewer == ViewerInit /\ [][ViewerNext]_vars

(***************************************************************************)
(* Claims about the web viewer                                             *)
(***************************************************************************)

\* the last POST /api/open has failed and no other is in flight
LastOpenFailed ==
    /\ "failed" \in DOMAIN viewerRequests
    /\ viewerRequests.pc = "idle"
    /\ viewerRequests.failed

\* C28: after a failed POST /api/open the current file is the one loaded
\* before the request, and /api/status and /api/tree report and serve it
C28_FailedOpenKeepsCurrentFile ==
    LastOpenFailed =>
        /\ currentFile = viewerRequests.before
        /\ viewerRequests.response.endpoint = "status" =>
              viewerRequests.response.file = viewerRequests.before
        /\ viewerRequests.response.endpoint = "tree" =>
              viewerRequests.response.served = viewerRequests.before

\* what does hold: a body that is not JSON leaves the current file alone; a
\* file that does not load has become the current file
FailedOpenKeepsOrReplaces ==
    LastOpenFailed =>
        \/ currentFile = viewerRequests.before
        \/ currentFile \in InvalidFigFiles

(***************************************************************************)
(* Claims about the ids of the definitions of one render call              *)
(***************************************************************************)

RECURSIVE ReferencesIn(_)
\* the ids that the url(#id) references of an output name
ReferencesIn(out) ==
    IF Len(out) = 0 THEN {}
    ELSE (IF out[1].tag = "g"
          THEN {out[1].ref} \cup ReferencesIn(out[1].kids)
          ELSE {})
         \cup ReferencesIn(Tail(out))

\* the ids defined in the <defs> of the last result
DefinedIds == {last.svg.defs[i].id : i \in 1..Len(last.svg.defs)}

\* C30: in the output of one render call no two definitions share an id, and
\* every url(#id) reference names an id defined in that output
C30_DefinitionIdsUniqueAndDefined ==
    (last.op = "render" /\ ~last.svg.empty) =>
        /\ \A i, j \in 1..Len(last.svg.defs) :
              i # j => last.svg.defs[i].id # last.svg.defs[j].id
        /\ ReferencesIn(last.svg.body) \subseteq DefinedIds

\* a render call whose output has two mask clips, a container clip or a
\* shadow filter, and references to them
C30_Witness ==
    /\ last.op = "render"
    /\ ~last.svg.empty
    /\ \E i, j \in 1..Len(last.svg.defs) :
          /\ i # j
          /\ last.svg.defs[i].id[1] = "mask"
          /\ last.svg.defs[j].id[1] = "mask"
    /\ \E k \in 1..Len(last.svg.defs) : last.svg.defs[k].tag = "filter"
    /\ \E id \in ReferencesIn(last.svg.body) : id[1] = "mask"
    /\ \E id \in ReferencesIn(last.svg.body) : id[1] \in {"shadow", "inner-shadow"}

\* a render call whose output has a container clip next to a mask clip
ClipBesideMask ==
    /\ last.op = "render"
    /\ ~last.svg.empty
    /\ \E id \in ReferencesIn(last.svg.body) : id[1] = "clip"
    /\ \E id \in ReferencesIn(last.svg.body) : id[1] = "mask"

(***************************************************************************)
(* Claims about the expansion of symbols during one render call            *)
(***************************************************************************)

\* the expansions of the last render call whose children renderNode went on
\* to render (their depth + 1 is within maxDepth)
RenderedExpansions ==
    {i \in 1..Len(last.expansions) :
        last.expansions[i].depth < last.options.maxDepth}

TimesRendered(symbolId) ==
    Cardinality({i \in RenderedExpansions : last.expansions[i].symbol = symbolId})

\* C29: a render call never expands a symbol inside its own expansion, and
\* renders the children of a symbol no more often than the graph has nodes
C29_NoSymbolInsideItsOwnExpansion ==
    last.op = "render" =>
        /\ \A i \in RenderedExpansions : ~last.expansions[i].nested
        /\ \A symbolId \in GNodes : TimesRendered(symbolId) <= Cardinality(GNodes)

\* what does hold: the expansions of a render call are only limited by
\* maxDepth, and without a node index nothing is expanded
ExpansionsWithinMaxDepth ==
    last.op = "render" =>
        /\ \A i \in 1..Len(last.expansions) :
              last.expansions[i].depth <= last.options.maxDepth
        /\ ~last.options.hasNodeIndex => last.expansions = <<>>

============================================================================
